---- MODULE Spec2Model ----
(***************************************************************************)
(* Orchestration and session-continuity engine of the retail backend.      *)
(*                                                                         *)
(* The data store holds one customer row (total_spend, last_seen_channel,  *)
(* session_context), the orders table, the payment_transactions table and  *)
(* the conversation_memory table.  Requests (POST /retail-orchestrator,    *)
(* POST /cart, DELETE /cart/:sku) are handled by concurrent tasks; each    *)
(* task is a chain of awaited calls.  pending[p] is the set of calls task  *)
(* p has issued and not yet seen return; an action named after a call is   *)
(* the return of that call followed by the synchronous code up to the      *)
(* next await, which issues the next call.                                 *)
(***************************************************************************)
EXTENDS Integers, Sequences, FiniteSets, TLC

\* ------------------------------------------------------------------ bounds
MaxQty == 2          \* largest qty of one POST /cart body
MaxFaults == 1       \* failing data-store or service calls in one behaviour
MaxStock == 1        \* largest stock of an inventory row

\* --------------------------------------------------------------- constants
Procs == {"p1", "p2"}
Skus == {"S1", "S2"}
Channels == {"web", "whatsapp"}
NULL == "null"
Prices == {1000}     \* price sent in a POST /cart body
InitSpend == {5000}  \* total_spend of the customer row before the requests
Recommended == {"S1"}  \* sku heading a non-empty recommendation list
\* recs[0].category of the product
Category(sku) == IF sku = "S1" THEN "shirts" ELSE "footwear"
Intents == {"recommend", "check_inventory", "checkout", "post_purchase", "smalltalk"}

\* a rule table whose gold tier has the percent of silver
MaxDiscountPercentGoldTen(tier) ==
  CASE tier = "bronze" -> 5
    [] tier = "silver" -> 10
    [] tier = "gold" -> 10
    [] tier = "platinum" -> 20
    [] OTHER -> 5

\* loyaltyRules fallback table
MaxDiscountPercent(tier) ==
  CASE tier = "bronze" -> 5
    [] tier = "silver" -> 10
    [] tier = "gold" -> 15
    [] tier = "platinum" -> 20
    [] OTHER -> 5

VARIABLES
  openai,               \* TRUE iff the OpenAI client was constructed
  db,                   \* the customer row
  orders,               \* orders table
  payment_transactions, \* payment_transactions table
  conversation_memory,  \* conversation_memory table
  lastWriter,           \* the task whose session_context write is the latest
  faults,               \* calls that have failed so far
  req,                  \* per task: the request being handled
  pending,              \* per task: calls in flight
  customer,             \* per task: the customer row as fetched
  plan,                 \* per task: the intent plan
  cart,                 \* per task: local cart
  sessionContext,       \* per task: local sessionContext
  workerResult,         \* per task: workerResult
  recentSessions,       \* per task: the number of rows getRecentSessions returned
  currentSpend,         \* per task: updateCustomerSpend's local
  failed,               \* per task: the calls that returned an error or threw
  steps,                \* per task: calls issued, in issue order
  result,               \* per task: the response
  call,                 \* the latest call of a synchronous worker: arguments and value
  customers,            \* the customer rows holding the WhatsApp sender's phone number
  waCustomer            \* per task: what findOrCreateWhatsAppCustomer returned

vars == <<openai, db, orders, payment_transactions, conversation_memory, lastWriter, faults,
          req, pending, customer, plan, cart, sessionContext, workerResult,
          recentSessions, currentSpend, failed, steps, result, call, customers, waCustomer>>

dbVars == <<db, orders, payment_transactions, conversation_memory, lastWriter>>

\* ------------------------------------------------------------------- carts
RECURSIVE SumLines(_)
SumLines(c) ==
  IF c = <<>> THEN 0
  ELSE (Head(c).price * (IF Head(c).qty = 0 THEN 1 ELSE Head(c).qty)) + SumLines(Tail(c))

\* cart.reduce((sum, item) => sum + (item.price || 0) * (item.qty || 1), 0)
CartTotal(c) == SumLines(c)

\* cart.findIndex(item => item.sku === sku); 0 stands for -1
FindIndex(c, sku) ==
  IF \E i \in 1..Len(c) : c[i].sku = sku
  THEN CHOOSE i \in 1..Len(c) : c[i].sku = sku /\ \A j \in 1..(i - 1) : c[j].sku # sku
  ELSE 0

\* POST /cart with the line appended whatever the cart holds
AddToCartAlwaysPush(c, sku, qty, price) ==
  Append(c, [sku |-> sku, qty |-> qty, price |-> price])

\* POST /cart with the quantity of an existing line replaced instead of incremented
AddToCartOverwriteQty(c, sku, qty, price) ==
  IF FindIndex(c, sku) > 0
  THEN [c EXCEPT ![FindIndex(c, sku)].qty = qty]
  ELSE Append(c, [sku |-> sku, qty |-> qty, price |-> price])

\* POST /cart: increment the existing line or push a new one
AddToCart(c, sku, qty, price) ==
  IF FindIndex(c, sku) > 0
  THEN [c EXCEPT ![FindIndex(c, sku)].qty = @ + qty]
  ELSE Append(c, [sku |-> sku, qty |-> qty, price |-> price])

\* DELETE /cart/:sku: cart.filter(item => item.sku !== sku)
RemoveFromCart(c, sku) == SelectSeq(c, LAMBDA l : l.sku # sku)

SkuList(c) == [i \in 1..Len(c) |-> c[i].sku]

\* ------------------------------------------------------------- utterances
\* an utterance is the sequence of its characters
UpperCase == <<"A", "B", "C", "D", "E", "F", "G", "H", "I", "J", "K", "L", "M",
               "N", "O", "P", "Q", "R", "S", "T", "U", "V", "W", "X", "Y", "Z">>
LowerCase == <<"a", "b", "c", "d", "e", "f", "g", "h", "i", "j", "k", "l", "m",
               "n", "o", "p", "q", "r", "s", "t", "u", "v", "w", "x", "y", "z">>

\* userQuery.toLowerCase()
ToLowerCase(q) ==
  [i \in 1..Len(q) |->
     IF \E k \in 1..26 : UpperCase[k] = q[i]
     THEN LowerCase[CHOOSE k \in 1..26 : UpperCase[k] = q[i]]
     ELSE q[i]]

\* lowerQuery.includes(word)
Includes(q, word) ==
  \E i \in 0..(Len(q) - Len(word)) : \A j \in 1..Len(word) : q[i + j] = word[j]

IncludesAny(q, words) == \E w \in words : Includes(q, w)

InventoryKeywords ==
  { <<"s", "t", "o", "c", "k">>,
    <<"a", "v", "a", "i", "l", "a", "b", "l", "e">>,
    <<"i", "n", "v", "e", "n", "t", "o", "r", "y">> }
CheckoutKeywords ==
  { <<"b", "u", "y">>,
    <<"p", "u", "r", "c", "h", "a", "s", "e">>,
    <<"c", "h", "e", "c", "k", "o", "u", "t">>,
    <<"p", "a", "y">> }
PostPurchaseKeywords ==
  { <<"o", "r", "d", "e", "r">>,
    <<"s", "t", "a", "t", "u", "s">>,
    <<"t", "r", "a", "c", "k">>,
    <<"r", "e", "t", "u", "r", "n">> }
SmalltalkKeywords ==
  { <<"h", "i">>,
    <<"h", "e", "l", "l", "o">>,
    <<"h", "e", "y">> }

\* the keyword groups tested in the opposite order
KeywordIntentGreetingFirst(userQuery) ==
  LET lowerQuery == ToLowerCase(userQuery) IN
  IF IncludesAny(lowerQuery, SmalltalkKeywords) THEN "smalltalk"
  ELSE IF IncludesAny(lowerQuery, PostPurchaseKeywords) THEN "post_purchase"
  ELSE IF IncludesAny(lowerQuery, CheckoutKeywords) THEN "checkout"
  ELSE IF IncludesAny(lowerQuery, InventoryKeywords) THEN "check_inventory"
  ELSE "recommend"

\* classifyIntent without the OpenAI client: the first keyword group that matches
KeywordIntent(userQuery) ==
  LET lowerQuery == ToLowerCase(userQuery) IN
  IF IncludesAny(lowerQuery, InventoryKeywords) THEN "check_inventory"
  ELSE IF IncludesAny(lowerQuery, CheckoutKeywords) THEN "checkout"
  ELSE IF IncludesAny(lowerQuery, PostPurchaseKeywords) THEN "post_purchase"
  ELSE IF IncludesAny(lowerQuery, SmalltalkKeywords) THEN "smalltalk"
  ELSE "recommend"

\* user_query.trim() of the requests
IsThisInStock == <<"i", "s", " ", "t", "h", "i", "s", " ", "i", "n", " ", "s", "t", "o", "c", "k">>
BuyNow == <<"B", "u", "y", " ", "n", "o", "w">>
TrackIt == <<"T", "r", "a", "c", "k", " ", "i", "t">>
Hey == <<"h", "e", "y">>
Jeans == <<"j", "e", "a", "n", "s">>
Utterances == {IsThisInStock, BuyNow, TrackIt, Hey, Jeans}

\* the utterances sent: the answer of the classification service is any of
\* ClassifierAnswers whatever the utterance, so one utterance is sent to it
Queries == IF openai THEN {IsThisInStock} ELSE Utterances

\* ----------------------------------------------------------------- workers
\* promotions: the one coupon with a flat_discount
FlatDiscount(couponCode) ==
  CASE couponCode = "FLAT500" -> 500
    [] OTHER -> 0

\* loyaltyAgent(customer, cartTotal, couponCode): discount and finalAmount; a
\* missing or unknown tier takes the rules { max_discount_percent: 5 }
loyaltyAgent(tier, cartTotal, couponCode) ==
  LET discount == (cartTotal * MaxDiscountPercent(tier)) \div 100 + FlatDiscount(couponCode)
      diff == cartTotal - discount
  IN [discount |-> discount, finalAmount |-> IF diff > 0 THEN diff ELSE 0]

\* ------------------------------------------------------------------ locals
NoReq == [kind |-> "idle", channel |-> NULL, query |-> <<>>, sku |-> NULL, qty |-> 0, price |-> 0]
NoCustomer == [found |-> FALSE, loyalty_tier |-> NULL, last_seen_channel |-> NULL,
               cart |-> <<>>, lastRecommended |-> NULL, lastBrowsedCategory |-> NULL]
NoPlan == [intent |-> NULL, raw |-> NULL, target_skus |-> "empty"]
NoContext == [cart |-> <<>>, lastRecommended |-> NULL, lastBrowsedCategory |-> NULL,
              channel_switched |-> NULL,
              previous_channel |-> NULL, current_channel |-> NULL]
NoWorker == [recommendations |-> NULL, checkout |-> NULL, discount |-> 0, finalAmount |-> 0,
             payment |-> NULL, paymentAmount |-> 0,
             paymentReason |-> NULL, retry_supported |-> NULL, orderId |-> 0,
             fulfillment |-> NULL]
\* findOrCreateWhatsAppCustomer returned null, or has not returned
NoWaCustomer == [id |-> 0, name |-> NULL, loyalty_tier |-> NULL]
NoCall == [fn |-> NULL, args |-> <<>>, ret |-> NULL]
NoResult == [status |-> 0, error |-> NULL, reply |-> NULL, saved |-> NULL]

\* ---------------------------------------------------------------- initial
InitCarts ==
  { <<>>,
    <<[sku |-> "S1", qty |-> 1, price |-> 1000], [sku |-> "S2", qty |-> 2, price |-> 1000]>> }

InitWith(carts) ==
  /\ openai \in BOOLEAN
  /\ \E c \in carts, tier \in {"gold"}, spend \in InitSpend :
       db = [loyalty_tier |-> tier, total_spend |-> spend, last_seen_channel |-> NULL,
             cart |-> c, lastRecommended |-> NULL, lastBrowsedCategory |-> NULL]
  /\ orders = <<>>
  /\ payment_transactions = <<>>
  /\ conversation_memory = <<>>
  /\ lastWriter = NULL
  /\ faults = 0
  /\ req = [p \in Procs |-> NoReq]
  /\ pending = [p \in Procs |-> {}]
  /\ customer = [p \in Procs |-> NoCustomer]
  /\ plan = [p \in Procs |-> NoPlan]
  /\ cart = [p \in Procs |-> <<>>]
  /\ sessionContext = [p \in Procs |-> NoContext]
  /\ workerResult = [p \in Procs |-> NoWorker]
  /\ recentSessions = [p \in Procs |-> 0]
  /\ currentSpend = [p \in Procs |-> 0]
  /\ failed = [p \in Procs |-> {}]
  /\ steps = [p \in Procs |-> <<>>]
  /\ result = [p \in Procs |-> NoResult]
  /\ call = NoCall
  /\ customers = <<>>
  /\ waCustomer = [p \in Procs |-> NoWaCustomer]

\* the state after construction, the snapshot holding no cart or two lines
Init == InitWith(InitCarts)

\* ------------------------------------------------------------ task steps
\* a call to the data store or to a service succeeds (TRUE) or fails (FALSE)
Outcomes == IF faults < MaxFaults THEN BOOLEAN ELSE {TRUE}
Fault(p, c, ok) ==
  /\ faults' = IF ok THEN faults ELSE faults + 1
  /\ failed' = [failed EXCEPT ![p] = IF ok THEN @ ELSE @ \cup {c}]

Range(s) == {s[i] : i \in 1..Len(s)}

\* loyaltyAgent, fulfillmentAgent and the reply template are not awaited
SyncSteps == {"loyaltyAgent", "fulfillmentAgent"}

\* the call c of task p returns and the steps of next are issued in order
Advance(p, c, next) ==
  /\ c \in pending[p]
  /\ pending' = [pending EXCEPT ![p] = (@ \ {c}) \cup (Range(next) \ SyncSteps)]
  /\ steps' = [steps EXCEPT ![p] = @ \o next]

\* checkout branch with the short-circuit on decline dropped
CheckoutNextNoShortCircuit(step, outcome) ==
  CASE step = "classifyIntent" ->
         IF outcome = "empty" THEN <<"updateSession">> ELSE <<"loyaltyAgent", "paymentAgent">>
    [] step = "paymentAgent" -> <<"createOrder">>
    [] step = "createOrder" ->
         IF outcome = "ok" THEN <<"logPayment">> ELSE <<"updateSession">>
    [] step = "logPayment" -> <<"updateCustomerSpend.select">>
    [] step = "updateCustomerSpend.select" -> <<"updateCustomerSpend.update">>
    [] step = "updateCustomerSpend.update" -> <<"fulfillmentAgent", "updateSession">>

\* checkout branch with fulfillment scheduled before the payment record and spend update
CheckoutNextFulfillFirst(step, outcome) ==
  CASE step = "classifyIntent" ->
         IF outcome = "empty" THEN <<"updateSession">> ELSE <<"loyaltyAgent", "paymentAgent">>
    [] step = "paymentAgent" ->
         IF outcome = "success" THEN <<"createOrder">> ELSE <<"updateSession">>
    [] step = "createOrder" ->
         IF outcome = "ok" THEN <<"fulfillmentAgent", "logPayment">> ELSE <<"updateSession">>
    [] step = "logPayment" -> <<"updateCustomerSpend.select">>
    [] step = "updateCustomerSpend.select" -> <<"updateCustomerSpend.update">>
    [] step = "updateCustomerSpend.update" -> <<"updateSession">>

\* checkout branch with the spend update left out
CheckoutNextNoSpend(step, outcome) ==
  CASE step = "classifyIntent" ->
         IF outcome = "empty" THEN <<"updateSession">> ELSE <<"loyaltyAgent", "paymentAgent">>
    [] step = "paymentAgent" ->
         IF outcome = "success" THEN <<"createOrder">> ELSE <<"updateSession">>
    [] step = "createOrder" ->
         IF outcome = "ok" THEN <<"logPayment">> ELSE <<"updateSession">>
    [] step = "logPayment" -> <<"fulfillmentAgent", "updateSession">>
    [] step = "updateCustomerSpend.select" -> <<"updateCustomerSpend.update">>
    [] step = "updateCustomerSpend.update" -> <<"fulfillmentAgent", "updateSession">>

\* checkout branch with the saga abandoned when the payment record or the spend
\* update fails
CheckoutNextStopOnFailure(step, outcome) ==
  CASE step = "classifyIntent" ->
         IF outcome = "empty" THEN <<"updateSession">> ELSE <<"loyaltyAgent", "paymentAgent">>
    [] step = "paymentAgent" ->
         IF outcome = "success" THEN <<"createOrder">> ELSE <<"updateSession">>
    [] step = "createOrder" ->
         IF outcome = "ok" THEN <<"logPayment">> ELSE <<"updateSession">>
    [] step = "logPayment" ->
         IF outcome = "ok" THEN <<"updateCustomerSpend.select">> ELSE <<"updateSession">>
    [] step = "updateCustomerSpend.select" -> <<"updateCustomerSpend.update">>
    [] step = "updateCustomerSpend.update" ->
         IF outcome = "ok" THEN <<"fulfillmentAgent", "updateSession">> ELSE <<"updateSession">>

\* case "checkout": the steps issued when step returns with outcome
CheckoutNext(step, outcome) ==
  CASE step = "classifyIntent" ->
         IF outcome = "empty" THEN <<"updateSession">> ELSE <<"loyaltyAgent", "paymentAgent">>
    [] step = "paymentAgent" ->
         IF outcome = "success" THEN <<"createOrder">> ELSE <<"updateSession">>
    [] step = "createOrder" ->
         IF outcome = "ok" THEN <<"logPayment">> ELSE <<"updateSession">>
    [] step = "logPayment" -> <<"updateCustomerSpend.select">>
    [] step = "updateCustomerSpend.select" -> <<"updateCustomerSpend.update">>
    [] step = "updateCustomerSpend.update" -> <<"fulfillmentAgent", "updateSession">>

\* fulfillmentAgent's status (Math.random() < 0.05 fails)
FulfillmentOutcomes == {"scheduled", "failed"}

\* paymentAgent's status (Math.random() < 0.1 declines)
PaymentOutcomes == {"success", "declined"}

\* RunSteps with the cart cleared as soon as the payment has succeeded
RunStepsClearOnPayment(p, c, next, wr) ==
  /\ Advance(p, c, next)
  /\ IF "fulfillmentAgent" \in Range(next)
     THEN \E f \in FulfillmentOutcomes :
            workerResult' = [workerResult EXCEPT ![p] = [wr EXCEPT !.fulfillment = f]]
     ELSE workerResult' = [workerResult EXCEPT ![p] = wr]
  /\ IF "fulfillmentAgent" \in Range(next) \/ "createOrder" \in Range(next)
     THEN /\ cart' = [cart EXCEPT ![p] = <<>>]
          /\ sessionContext' = [sessionContext EXCEPT ![p].cart = <<>>,
                                                      ![p].lastRecommended = NULL]
     ELSE UNCHANGED <<cart, sessionContext>>

\* the tail of the order-created branch with the cart cleared only when
\* fulfillment was scheduled
RunStepsKeepCartOnFailure(p, c, next, wr) ==
  /\ Advance(p, c, next)
  /\ IF "fulfillmentAgent" \in Range(next)
     THEN \E f \in FulfillmentOutcomes :
            /\ workerResult' = [workerResult EXCEPT ![p] = [wr EXCEPT !.fulfillment = f]]
            /\ IF f = "scheduled"
               THEN /\ cart' = [cart EXCEPT ![p] = <<>>]
                    /\ sessionContext' = [sessionContext EXCEPT ![p].cart = <<>>,
                                                                ![p].lastRecommended = NULL]
               ELSE UNCHANGED <<cart, sessionContext>>
     ELSE /\ workerResult' = [workerResult EXCEPT ![p] = wr]
          /\ UNCHANGED <<cart, sessionContext>>

\* the call c of task p returns and the steps of next follow; wr is workerResult
\* after c.  When fulfillmentAgent is among them it runs synchronously and the
\* cart clear follows it in the same block.
RunSteps(p, c, next, wr) ==
  /\ Advance(p, c, next)
  /\ IF "fulfillmentAgent" \in Range(next)
     THEN /\ \E f \in FulfillmentOutcomes :
               workerResult' = [workerResult EXCEPT ![p] = [wr EXCEPT !.fulfillment = f]]
          /\ cart' = [cart EXCEPT ![p] = <<>>]
          /\ sessionContext' = [sessionContext EXCEPT ![p].cart = <<>>,
                                                      ![p].lastRecommended = NULL]
     ELSE /\ workerResult' = [workerResult EXCEPT ![p] = wr]
          /\ UNCHANGED <<cart, sessionContext>>

\* a checkout step c of task p returns with outcome
SagaStep(p, c, outcome, wr) == RunSteps(p, c, CheckoutNext(c, outcome), wr)

Respond(p, status, error, reply) ==
  result' = [result EXCEPT ![p] = [status |-> status, error |-> error, reply |-> reply,
                                   saved |-> result[p].saved]]

ResetLocals(p) ==
  /\ customer' = [customer EXCEPT ![p] = NoCustomer]
  /\ plan' = [plan EXCEPT ![p] = NoPlan]
  /\ cart' = [cart EXCEPT ![p] = <<>>]
  /\ sessionContext' = [sessionContext EXCEPT ![p] = NoContext]
  /\ workerResult' = [workerResult EXCEPT ![p] = NoWorker]
  /\ currentSpend' = [currentSpend EXCEPT ![p] = 0]
  /\ recentSessions' = [recentSessions EXCEPT ![p] = 0]
  /\ failed' = [failed EXCEPT ![p] = {}]

\* the fetched row, as the handler holds it
Fetched(row) ==
  [found |-> TRUE, loyalty_tier |-> row.loyalty_tier, last_seen_channel |-> row.last_seen_channel,
   cart |-> row.cart, lastRecommended |-> row.lastRecommended,
   lastBrowsedCategory |-> row.lastBrowsedCategory]

\* ------------------------------------------- POST /retail-orchestrator
PostRetailOrchestrator(p) ==
  /\ req[p].kind = "idle"
  /\ \E valid \in BOOLEAN, ch \in Channels, q \in Queries :
       /\ req' = [req EXCEPT ![p] = [kind |-> "turn", channel |-> ch,
                                     query |-> IF valid THEN q ELSE <<>>,
                                     sku |-> NULL, qty |-> 0, price |-> 0]]
       /\ IF valid
          THEN /\ pending' = [pending EXCEPT ![p] = {"fetchCustomer"}]
               /\ steps' = [steps EXCEPT ![p] = <<"fetchCustomer">>]
               /\ result' = [result EXCEPT ![p] = NoResult]
          ELSE /\ pending' = [pending EXCEPT ![p] = {}]
               /\ steps' = [steps EXCEPT ![p] = <<>>]
               /\ result' = [result EXCEPT ![p] = [status |-> 400, error |-> "Missing or invalid user_query",
                                                   reply |-> "provide_message", saved |-> NULL]]
  /\ ResetLocals(p)
  /\ UNCHANGED faults
  /\ UNCHANGED <<openai, call, customers, waCustomer, dbVars>>

\* the route with runRetailOrchestrator called whatever fetchCustomer returned
RouteNextNoCheck(found) == <<"fetchCustomerById">>

\* if (!customer) return res.status(404)...; else runRetailOrchestrator is called
RouteNext(found) == IF found THEN <<"fetchCustomerById">> ELSE <<>>

\* the route's fetchCustomer(authUserId)
RouteFetchCustomer(p) ==
  /\ req[p].kind = "turn"
  /\ \E found \in Outcomes : Fault(p, "fetchCustomer", found) /\ (
       IF found
       THEN /\ Advance(p, "fetchCustomer", RouteNext(found))
            /\ UNCHANGED result
       ELSE /\ Advance(p, "fetchCustomer", RouteNext(found))
            /\ Respond(p, 404, "Customer not found", "complete_setup") )
  /\ UNCHANGED <<openai, call, customers, waCustomer, dbVars, req, customer, plan, cart, sessionContext, workerResult,
                 recentSessions, currentSpend>>

\* runRetailOrchestrator: fetchCustomerById
fetchCustomerById(p) ==
  /\ req[p].kind = "turn"
  /\ \E found \in Outcomes : Fault(p, "fetchCustomerById", found) /\ (
       IF found
       THEN /\ Advance(p, "fetchCustomerById", <<"getRecentSessions">>)
            /\ customer' = [customer EXCEPT ![p] = Fetched(db)]
            /\ UNCHANGED result
       ELSE /\ Advance(p, "fetchCustomerById", <<>>)
            /\ Respond(p, 200, "Customer not found", "profile_not_found")
            /\ UNCHANGED customer )
  /\ UNCHANGED <<openai, call, customers, waCustomer, dbVars, req, plan, cart, sessionContext, workerResult, recentSessions, currentSpend>>

\* a JavaScript boolean as it is serialised
JsBool(b) == IF b THEN "true" ELSE "false"

\* lastChannel && lastChannel !== channel: && yields its left operand when that
\* operand is falsy, so a null lastChannel gives null
ChannelSwitched(lastChannel, channel) ==
  IF lastChannel = NULL THEN NULL ELSE JsBool(lastChannel # channel)

\* the rows of the history newest first, at most limit of them
LastRows(history, limit) ==
  [i \in 1..(IF Len(history) < limit THEN Len(history) ELSE limit) |->
     history[Len(history) + 1 - i]]

\* getRecentSessions(customer_id, 3): the rows, or [] when the query failed
RecentSessionsResult(ok) == IF ok THEN LastRows(conversation_memory, 3) ELSE <<>>

\* a session context that forgets the item last recommended
InitialSessionContextNoItem(c, channel) ==
  [cart |-> c.cart,
   lastRecommended |-> NULL,
   lastBrowsedCategory |-> c.lastBrowsedCategory,
   channel_switched |-> ChannelSwitched(c.last_seen_channel, channel),
   previous_channel |-> c.last_seen_channel,
   current_channel |-> channel]

\* let sessionContext = { cart, lastRecommended, lastBrowsedCategory, channel_switched,
\* previous_channel, current_channel }, from the customer row c as fetched
InitialSessionContext(c, channel) ==
  [cart |-> c.cart,
   lastRecommended |-> c.lastRecommended,
   lastBrowsedCategory |-> c.lastBrowsedCategory,
   channel_switched |-> ChannelSwitched(c.last_seen_channel, channel),
   previous_channel |-> c.last_seen_channel,
   current_channel |-> channel]

\* getRecentSessions returns, then the session context of the turn is built
getRecentSessions(p) ==
  /\ req[p].kind = "turn"
  /\ Advance(p, "getRecentSessions", <<"classifyIntent">>)
  /\ \E ok \in Outcomes :
       /\ Fault(p, "getRecentSessions", ok)
       /\ recentSessions' = [recentSessions EXCEPT ![p] = Len(RecentSessionsResult(ok))]
  /\ sessionContext' = [sessionContext EXCEPT ![p] =
                          InitialSessionContext(customer[p], req[p].channel)]
  /\ UNCHANGED <<openai, call, customers, waCustomer, dbVars, req, customer, plan, cart, workerResult, currentSpend, result>>

\* what the classification service puts in the intent field of its JSON: two of
\* the five intents and a value outside them
ClassifierAnswers == {"check_inventory", "checkout", "other"}

\* target_skus of the parsed JSON: the field may be missing, empty or list skus
TargetSkus == {"missing", "empty", "some"}

\* classifyIntent with the validIntents test left out
CoerceIntentUnchecked(intent) == intent

\* if (!validIntents.includes(parsed.intent)) parsed.intent = "recommend"
CoerceIntent(intent) == IF intent \in Intents THEN intent ELSE "recommend"

\* const defaultIntent = { intent: "recommend", target_skus: [], ... }
DefaultIntent == [intent |-> "recommend", raw |-> NULL, target_skus |-> "empty"]

\* classifyIntent(userQuery, ...): the keyword matcher when the OpenAI client is
\* absent, the validated JSON when the call returned, defaultIntent when it threw
ClassifyIntentResult(userQuery, ok, raw, ts) ==
  IF ~openai
  THEN [DefaultIntent EXCEPT !.intent = KeywordIntent(userQuery)]
  ELSE IF ok
       THEN [intent |-> CoerceIntent(raw), raw |-> raw, target_skus |-> ts]
       ELSE DefaultIntent

\* switch (plan.intent): the code of task p from the switch to its first await
Dispatch(p, pl) ==
  /\ cart' = [cart EXCEPT ![p] = sessionContext[p].cart]
  /\ CASE pl.intent = "recommend" ->
            /\ Advance(p, "classifyIntent", <<"recommendationAgent">>)
            /\ UNCHANGED <<workerResult, sessionContext, result>>
       [] pl.intent = "check_inventory" /\ pl.target_skus = "missing" ->
            \* plan.target_skus.length throws; the catch of runRetailOrchestrator answers
            /\ Advance(p, "classifyIntent", <<>>)
            /\ Respond(p, 200, "TypeError", "apology")
            /\ UNCHANGED <<workerResult, sessionContext>>
       [] pl.intent = "check_inventory" /\ pl.target_skus # "missing" ->
            /\ Advance(p, "classifyIntent",
                       IF pl.target_skus = "some" \/ sessionContext[p].cart # <<>>
                       THEN <<"checkInventory">> ELSE <<"updateSession">>)
            /\ UNCHANGED <<workerResult, sessionContext, result>>
       [] pl.intent = "checkout" /\ sessionContext[p].cart = <<>> ->
            /\ Advance(p, "classifyIntent", CheckoutNext("classifyIntent", "empty"))
            /\ workerResult' = [workerResult EXCEPT ![p].checkout = "Cart is empty"]
            /\ UNCHANGED <<sessionContext, result>>
       [] pl.intent = "checkout" /\ sessionContext[p].cart # <<>> ->
            /\ Advance(p, "classifyIntent", CheckoutNext("classifyIntent", "nonempty"))
            /\ LET loyalty == loyaltyAgent(customer[p].loyalty_tier,
                                           CartTotal(sessionContext[p].cart), NULL)
               IN workerResult' = [workerResult EXCEPT ![p].discount = loyalty.discount,
                                                       ![p].finalAmount = loyalty.finalAmount]
            /\ UNCHANGED <<sessionContext, result>>
       [] pl.intent = "post_purchase" ->
            /\ Advance(p, "classifyIntent", <<"recentOrders">>)
            /\ UNCHANGED <<workerResult, sessionContext, result>>
       [] OTHER ->
            \* case "smalltalk", and a value no case matches: nothing is awaited
            /\ Advance(p, "classifyIntent", <<"updateSession">>)
            /\ UNCHANGED <<workerResult, sessionContext, result>>

\* classifyIntent returns; the switch on plan.intent runs up to its first await
classifyIntent(p) ==
  /\ req[p].kind = "turn"
  /\ "classifyIntent" \in pending[p]
  /\ \E ok \in Outcomes, raw \in ClassifierAnswers, ts \in TargetSkus :
       /\ ~openai => (ok /\ raw = "other" /\ ts = "empty")
       /\ ~ok => (raw = "other" /\ ts = "empty")
       /\ (raw # "check_inventory") => ts = "empty"
       /\ Fault(p, "classifyIntent", ok)
       /\ plan' = [plan EXCEPT ![p] = ClassifyIntentResult(req[p].query, ok, raw, ts)]
       /\ Dispatch(p, ClassifyIntentResult(req[p].query, ok, raw, ts))
  /\ UNCHANGED <<openai, call, customers, waCustomer, dbVars, req, customer, recentSessions, currentSpend>>

\* the recommend case with the item forgotten when no product is returned
RecordRecommendationClearOnEmpty(ctx, first) ==
  IF first # NULL
  THEN [ctx EXCEPT !.lastRecommended = first, !.lastBrowsedCategory = Category(first)]
  ELSE [ctx EXCEPT !.lastRecommended = NULL, !.lastBrowsedCategory = NULL]

\* if (recs && recs.length > 0): lastRecommended and lastBrowsedCategory are taken
\* from recs[0], whose sku is first
RecordRecommendation(ctx, first) ==
  IF first # NULL
  THEN [ctx EXCEPT !.lastRecommended = first, !.lastBrowsedCategory = Category(first)]
  ELSE ctx

\* case "recommend": recommendationAgent returns no product or a list headed by
\* sku; when a lookup inside it throws, its catch returns []
recommendationAgent(p) ==
  /\ req[p].kind = "turn"
  /\ Advance(p, "recommendationAgent", <<"updateSession">>)
  /\ \E ok \in Outcomes, first \in Recommended \cup {NULL} :
       /\ ~ok => first = NULL
       /\ Fault(p, "recommendationAgent", ok)
       /\ workerResult' = [workerResult EXCEPT ![p].recommendations = first]
       /\ sessionContext' = [sessionContext EXCEPT ![p] = RecordRecommendation(@, first)]
  /\ UNCHANGED <<openai, call, customers, waCustomer, dbVars, req, customer, plan, cart, recentSessions, currentSpend, result>>

\* case "check_inventory": checkInventory returns the stock rows, or [] when the
\* query failed
checkInventory(p) ==
  /\ req[p].kind = "turn"
  /\ Advance(p, "checkInventory", <<"updateSession">>)
  /\ \E ok \in Outcomes : Fault(p, "checkInventory", ok)
  /\ UNCHANGED <<openai, call, customers, waCustomer, dbVars, req, customer, plan, cart, sessionContext, workerResult,
                 recentSessions, currentSpend, result>>

\* case "post_purchase": the orders query returns its rows, or { data: null }
\* when it failed
recentOrders(p) ==
  /\ req[p].kind = "turn"
  /\ Advance(p, "recentOrders", <<"updateSession">>)
  /\ \E ok \in Outcomes : Fault(p, "recentOrders", ok)
  /\ UNCHANGED <<openai, call, customers, waCustomer, dbVars, req, customer, plan, cart, sessionContext, workerResult,
                 recentSessions, currentSpend, result>>

\* paymentAgent with the gateway timeout reported as a success
PaymentAgentResultTimeoutSucceeds(fail) ==
  IF fail
  THEN [status |-> "success", reason |-> "Payment gateway timeout", retry_supported |-> "true"]
  ELSE [status |-> "success", reason |-> NULL, retry_supported |-> NULL]

\* paymentAgent: const fail = Math.random() < 0.1
PaymentAgentResult(fail) ==
  IF fail
  THEN [status |-> "declined", reason |-> "Payment gateway timeout", retry_supported |-> "true"]
  ELSE [status |-> "success", reason |-> NULL, retry_supported |-> NULL]

\* case "checkout": paymentAgent returns
paymentAgent(p) ==
  /\ req[p].kind = "turn"
  /\ \E fail \in BOOLEAN :
       SagaStep(p, "paymentAgent", PaymentAgentResult(fail).status,
                [workerResult[p] EXCEPT !.payment = PaymentAgentResult(fail).status,
                                        !.paymentReason = PaymentAgentResult(fail).reason,
                                        !.retry_supported = PaymentAgentResult(fail).retry_supported,
                                        !.paymentAmount =
                                           IF PaymentAgentResult(fail).status = "success"
                                           THEN workerResult[p].finalAmount ELSE 0])
  /\ UNCHANGED <<faults, failed>>
  /\ UNCHANGED <<openai, call, customers, waCustomer, dbVars, req, customer, plan, recentSessions, currentSpend, result>>

\* an order whose total is the cart total before the discount
NewOrderUndiscounted(id, p, c, amount) ==
  [order_id |-> id, by |-> p, sku_list |-> SkuList(c), total_amount |-> CartTotal(c),
   status |-> "pending"]

\* createOrder(customer, skuList, fulfillmentMode, amount): the row inserted, with
\* skuList = cart.map(i => i.sku)
NewOrder(id, p, c, amount) ==
  [order_id |-> id, by |-> p, sku_list |-> SkuList(c), total_amount |-> amount,
   status |-> "pending"]

\* case "checkout": createOrder returns the order id, or null when the insert failed
createOrder(p) ==
  /\ req[p].kind = "turn"
  /\ \E ok \in Outcomes : Fault(p, "createOrder", ok) /\ (
       IF ok
       THEN /\ orders' = Append(orders,
                 NewOrder(Len(orders) + 1, p, cart[p], workerResult[p].finalAmount))
            /\ SagaStep(p, "createOrder", "ok", [workerResult[p] EXCEPT !.orderId = Len(orders) + 1])
       ELSE /\ UNCHANGED orders
            /\ SagaStep(p, "createOrder", "failed", workerResult[p]) )
  /\ UNCHANGED <<openai, call, customers, waCustomer, db, payment_transactions, conversation_memory, lastWriter, req,
                 customer, plan, recentSessions, currentSpend, result>>

\* case "checkout": logPayment returns
logPayment(p) ==
  /\ req[p].kind = "turn"
  /\ \E ok \in Outcomes :
       /\ Fault(p, "logPayment", ok)
       /\ payment_transactions' =
            IF ok
            THEN Append(payment_transactions,
                   [order_id |-> workerResult[p].orderId, by |-> p,
                    amount |-> workerResult[p].finalAmount, status |-> workerResult[p].payment])
            ELSE payment_transactions
       /\ SagaStep(p, "logPayment", IF ok THEN "ok" ELSE "failed", workerResult[p])
  /\ UNCHANGED <<openai, call, customers, waCustomer, db, orders, conversation_memory, lastWriter, req,
                 customer, plan, recentSessions, currentSpend, result>>

\* updateCustomerSpend: the select of total_spend returns (customer?.total_spend || 0)
updateCustomerSpendSelect(p) ==
  /\ req[p].kind = "turn"
  /\ \E ok \in Outcomes :
       /\ Fault(p, "updateCustomerSpend.select", ok)
       /\ currentSpend' = [currentSpend EXCEPT ![p] = IF ok THEN db.total_spend ELSE 0]
       /\ SagaStep(p, "updateCustomerSpend.select", IF ok THEN "ok" ELSE "failed", workerResult[p])
  /\ UNCHANGED <<openai, call, customers, waCustomer, dbVars, req, customer, plan, recentSessions, result>>

\* updateCustomerSpend: the update of total_spend returns
updateCustomerSpendUpdate(p) ==
  /\ req[p].kind = "turn"
  /\ \E ok \in Outcomes :
       /\ Fault(p, "updateCustomerSpend.update", ok)
       /\ db' = IF ok
                THEN [db EXCEPT !.total_spend = currentSpend[p] + workerResult[p].finalAmount]
                ELSE db
       /\ SagaStep(p, "updateCustomerSpend.update", IF ok THEN "ok" ELSE "failed", workerResult[p])
  /\ UNCHANGED <<openai, call, customers, waCustomer, orders, payment_transactions, conversation_memory, lastWriter, req,
                 customer, plan, recentSessions, currentSpend, result>>

\* the templated reply used when the OpenAI client is absent
FallbackReply(intent, wr, c) ==
  CASE intent = "recommend" ->
         IF wr.recommendations # NULL THEN "found_items" ELSE "no_recommendations"
    [] intent = "checkout" ->
         IF c = <<>> THEN "cart_empty"
         ELSE IF wr.payment = "success" THEN "payment_successful"
         ELSE "ready_to_checkout"
    [] OTHER -> "asking_about_intent"

\* the turn given up when the interaction record could not be appended
UpdateSessionNextStopOnFailure(ok) ==
  IF ~ok THEN <<>>
  ELSE IF openai THEN <<"generateReply">> ELSE <<"updateCustomerChannel">>

\* the interaction record appended again when the append failed
UpdateSessionNextRetry(ok) ==
  IF ~ok THEN <<"updateSession">>
  ELSE IF openai THEN <<"generateReply">> ELSE <<"updateCustomerChannel">>

\* the code after await updateSession(...): its return value is not looked at
UpdateSessionNext(ok) ==
  IF openai THEN <<"generateReply">> ELSE <<"updateCustomerChannel">>

\* updateSession returns, then the reply is templated or requested
updateSession(p) ==
  /\ req[p].kind = "turn"
  /\ \E ok \in Outcomes :
       /\ Fault(p, "updateSession", ok)
       /\ conversation_memory' =
         IF ok
         THEN Append(conversation_memory,
                [by |-> p, channel |-> req[p].channel, intent |-> plan[p].intent,
                 cart |-> cart[p]])
         ELSE conversation_memory
       /\ Advance(p, "updateSession", UpdateSessionNext(ok))
  /\ IF openai
     THEN UNCHANGED result
     ELSE result' = [result EXCEPT ![p].reply = FallbackReply(plan[p].intent, workerResult[p], cart[p])]
  /\ UNCHANGED <<openai, call, customers, waCustomer, db, orders, payment_transactions, lastWriter, req, customer, plan,
                 cart, sessionContext, workerResult, recentSessions, currentSpend>>

\* openai.chat.completions.create for the reply returns or throws
generateReply(p) ==
  /\ req[p].kind = "turn"
  /\ Advance(p, "generateReply", <<"updateCustomerChannel">>)
  /\ \E ok \in Outcomes :
       /\ Fault(p, "generateReply", ok)
       /\ result' = [result EXCEPT ![p].reply = IF ok THEN "ai_reply" ELSE "ai_unavailable_reply"]
  /\ UNCHANGED <<openai, call, customers, waCustomer, dbVars, req, customer, plan, cart, sessionContext, workerResult,
                 recentSessions, currentSpend>>

\* updateCustomerChannel with the lines of the stored cart that the new cart
\* lacks kept in front of the new cart
WriteSnapshotMerged(row, channel, c, lastRecommended, lastBrowsedCategory) ==
  [row EXCEPT !.last_seen_channel = channel,
              !.cart = SelectSeq(row.cart, LAMBDA l : FindIndex(c, l.sku) = 0) \o c,
              !.lastRecommended = lastRecommended,
              !.lastBrowsedCategory = lastBrowsedCategory]

\* updateCustomerChannel with last_seen_channel left as it was
WriteSnapshotKeepChannel(row, channel, c, lastRecommended, lastBrowsedCategory) ==
  [row EXCEPT !.cart = c, !.lastRecommended = lastRecommended,
              !.lastBrowsedCategory = lastBrowsedCategory]

\* updateCustomerChannel: the update of last_seen_channel and session_context
WriteSnapshot(row, channel, c, lastRecommended, lastBrowsedCategory) ==
  [row EXCEPT !.last_seen_channel = channel, !.cart = c, !.lastRecommended = lastRecommended,
              !.lastBrowsedCategory = lastBrowsedCategory]

\* sessionContext.cart = cart; updateCustomerChannel returns; the turn's result is returned
updateCustomerChannel(p) ==
  /\ req[p].kind = "turn"
  /\ Advance(p, "updateCustomerChannel", <<>>)
  /\ sessionContext' = [sessionContext EXCEPT ![p].cart = cart[p]]
  /\ \E ok \in Outcomes :
       /\ Fault(p, "updateCustomerChannel", ok)
       /\ db' = IF ok
                THEN WriteSnapshot(db, req[p].channel, cart[p], sessionContext[p].lastRecommended,
                                   sessionContext[p].lastBrowsedCategory)
                ELSE db
       /\ lastWriter' = IF ok THEN p ELSE lastWriter
       /\ result' = [result EXCEPT ![p] = [status |-> 200, error |-> NULL, reply |-> @.reply,
                                           saved |-> IF ok THEN "ok" ELSE "failed"]]
  /\ UNCHANGED <<openai, call, customers, waCustomer, orders, payment_transactions, conversation_memory, req, customer,
                 plan, cart, workerResult, recentSessions, currentSpend>>

\* ------------------------------------------------------------- POST /cart
\* router.post("/cart"): the body is validated (sku and price required)
PostCart(p) ==
  /\ req[p].kind = "idle"
  /\ \E sku \in Skus, qty \in 1..MaxQty, price \in Prices, ch \in Channels, valid \in BOOLEAN :
       /\ req' = [req EXCEPT ![p] = [kind |-> "post", channel |-> ch, query |-> <<>>,
                                     sku |-> sku, qty |-> qty, price |-> price]]
       /\ IF valid
          THEN /\ pending' = [pending EXCEPT ![p] = {"fetchCustomer"}]
               /\ steps' = [steps EXCEPT ![p] = <<"fetchCustomer">>]
               /\ result' = [result EXCEPT ![p] = NoResult]
          ELSE /\ pending' = [pending EXCEPT ![p] = {}]
               /\ steps' = [steps EXCEPT ![p] = <<>>]
               /\ result' = [result EXCEPT ![p] = [status |-> 400, error |-> "Missing required fields",
                                                   reply |-> "provide_product_details", saved |-> NULL]]
  /\ ResetLocals(p)
  /\ UNCHANGED faults
  /\ UNCHANGED <<openai, call, customers, waCustomer, dbVars>>

\* router.post("/cart"): fetchCustomer returns; an existing line is incremented
PostCartFetchCustomer(p) ==
  /\ req[p].kind = "post"
  /\ \E found \in Outcomes : Fault(p, "fetchCustomer", found) /\ (
       IF found
       THEN /\ customer' = [customer EXCEPT ![p] = Fetched(db)]
            /\ IF FindIndex(db.cart, req[p].sku) > 0
               THEN /\ cart' = [cart EXCEPT ![p] = AddToCart(db.cart, req[p].sku, req[p].qty, req[p].price)]
                    /\ Advance(p, "fetchCustomer", <<"updateCustomerChannel">>)
               ELSE /\ cart' = [cart EXCEPT ![p] = db.cart]
                    /\ Advance(p, "fetchCustomer", <<"productName">>)
            /\ UNCHANGED result
       ELSE /\ Advance(p, "fetchCustomer", <<>>)
            /\ Respond(p, 404, "Customer not found", "complete_profile")
            /\ UNCHANGED <<customer, cart>> )
  /\ UNCHANGED <<openai, call, customers, waCustomer, dbVars, req, plan, sessionContext, workerResult, recentSessions, currentSpend>>

\* router.post("/cart"): the product name lookup returns and the new line is pushed
PostCartProductName(p) ==
  /\ req[p].kind = "post"
  /\ Advance(p, "productName", <<"updateCustomerChannel">>)
  /\ cart' = [cart EXCEPT ![p] = AddToCart(cart[p], req[p].sku, req[p].qty, req[p].price)]
  /\ UNCHANGED <<faults, failed>>
  /\ UNCHANGED <<openai, call, customers, waCustomer, dbVars, req, customer, plan, sessionContext, workerResult,
                 recentSessions, currentSpend, result>>

\* router.post("/cart"): updateCustomerChannel(customer.id, channel, {...sessionContext, cart})
PostCartUpdateCustomerChannel(p) ==
  /\ req[p].kind = "post"
  /\ Advance(p, "updateCustomerChannel", <<>>)
  /\ \E ok \in Outcomes :
       /\ Fault(p, "updateCustomerChannel", ok)
       /\ db' = IF ok
                THEN WriteSnapshot(db, req[p].channel, cart[p], customer[p].lastRecommended,
                                   customer[p].lastBrowsedCategory)
                ELSE db
       /\ lastWriter' = IF ok THEN p ELSE lastWriter
       /\ result' = [result EXCEPT ![p] = [status |-> 200, error |-> NULL, reply |-> "item_added",
                                           saved |-> IF ok THEN "ok" ELSE "failed"]]
  /\ UNCHANGED <<openai, call, customers, waCustomer, orders, payment_transactions, conversation_memory, req, customer,
                 plan, cart, sessionContext, workerResult, recentSessions, currentSpend>>

\* ------------------------------------------------------ DELETE /cart/:sku
DeleteCart(p) ==
  /\ req[p].kind = "idle"
  /\ \E sku \in Skus :
       req' = [req EXCEPT ![p] = [kind |-> "delete", channel |-> "web", query |-> <<>>,
                                  sku |-> sku, qty |-> 0, price |-> 0]]
  /\ pending' = [pending EXCEPT ![p] = {"fetchCustomer"}]
  /\ steps' = [steps EXCEPT ![p] = <<"fetchCustomer">>]
  /\ result' = [result EXCEPT ![p] = NoResult]
  /\ ResetLocals(p)
  /\ UNCHANGED faults
  /\ UNCHANGED <<openai, call, customers, waCustomer, dbVars>>

\* router.delete("/cart/:sku"): fetchCustomer returns and the line is filtered out
DeleteCartFetchCustomer(p) ==
  /\ req[p].kind = "delete"
  /\ \E found \in Outcomes : Fault(p, "fetchCustomer", found) /\ (
       IF found
       THEN /\ customer' = [customer EXCEPT ![p] = Fetched(db)]
            /\ cart' = [cart EXCEPT ![p] = RemoveFromCart(db.cart, req[p].sku)]
            /\ Advance(p, "fetchCustomer", <<"updateCustomerChannel">>)
            /\ UNCHANGED result
       ELSE /\ Advance(p, "fetchCustomer", <<>>)
            /\ Respond(p, 404, "Customer not found", NULL)
            /\ UNCHANGED <<customer, cart>> )
  /\ UNCHANGED <<openai, call, customers, waCustomer, dbVars, req, plan, sessionContext, workerResult, recentSessions, currentSpend>>

\* router.delete("/cart/:sku"): updateCustomerChannel(customer.id, "web", {...sessionContext, cart})
DeleteCartUpdateCustomerChannel(p) ==
  /\ req[p].kind = "delete"
  /\ Advance(p, "updateCustomerChannel", <<>>)
  /\ \E ok \in Outcomes :
       /\ Fault(p, "updateCustomerChannel", ok)
       /\ db' = IF ok
                THEN WriteSnapshot(db, "web", cart[p], customer[p].lastRecommended,
                                   customer[p].lastBrowsedCategory)
                ELSE db
       /\ lastWriter' = IF ok THEN p ELSE lastWriter
       /\ result' = [result EXCEPT ![p] = [status |-> 200, error |-> NULL, reply |-> "item_removed",
                                           saved |-> IF ok THEN "ok" ELSE "failed"]]
  /\ UNCHANGED <<openai, call, customers, waCustomer, orders, payment_transactions, conversation_memory, req, customer,
                 plan, cart, sessionContext, workerResult, recentSessions, currentSpend>>

\* ------------------------------------------ the earlier server variant
\* tiers of loyalty_rules.json
KnownTiers == {"bronze", "silver", "gold", "platinum"}

\* loyaltyAgent of the earlier variant: loyaltyRules.tiers[customer.loyalty_tier]
\* is undefined for another tier and reading its max_discount_percent throws;
\* no clamp at zero
LegacyLoyaltyAgent(tier, cartTotal, couponCode) ==
  IF tier \notin KnownTiers
  THEN [threw |-> TRUE, discount |-> 0, finalAmount |-> 0]
  ELSE LET discount == (cartTotal * MaxDiscountPercent(tier)) \div 100 + FlatDiscount(couponCode)
       IN [threw |-> FALSE, discount |-> discount, finalAmount |-> cartTotal - discount]

\* if (plan.intent === "checkout"): no empty-cart test, logPayment follows
\* createOrder whatever it returned, the spend update is one rpc
LegacyCheckoutNext(step, outcome) ==
  CASE step = "classifyIntent" -> <<"loyaltyAgent", "paymentAgent">>
    [] step = "paymentAgent" ->
         IF outcome = "success" THEN <<"createOrder">> ELSE <<"updateSession">>
    [] step = "createOrder" -> <<"logPayment">>
    [] step = "logPayment" -> <<"increment_customer_spend">>
    [] step = "increment_customer_spend" -> <<"fulfillmentAgent", "updateSession">>

LegacySagaStep(p, c, outcome, wr) == RunSteps(p, c, LegacyCheckoutNext(c, outcome), wr)

\* what the classification service may answer: the intent is not validated
LegacyIntents == Intents \cup {"other"}

\* recentSessions[0]?.context?.cart || []
LegacyCartOf(history) == IF history = <<>> THEN <<>> ELSE history[Len(history)].cart

\* existing.qty += qty || 1, or cart.push({ sku, qty: qty || 1, price })
LegacyAddToCart(c, sku, qty, price) ==
  LET q == IF qty = 0 THEN 1 ELSE qty IN
  IF FindIndex(c, sku) > 0
  THEN [c EXCEPT ![FindIndex(c, sku)].qty = @ + q]
  ELSE Append(c, [sku |-> sku, qty |-> q, price |-> price])

\* app.post("/api/retail-orchestrator")
LegacyPostRetailOrchestrator(p) ==
  /\ req[p].kind = "idle"
  /\ \E valid \in BOOLEAN, ch \in Channels :
       /\ req' = [req EXCEPT ![p] = [kind |-> "legacy_turn", channel |-> ch, query |-> <<>>,
                                     sku |-> NULL, qty |-> 0, price |-> 0]]
       /\ IF valid
          THEN /\ pending' = [pending EXCEPT ![p] = {"fetchCustomer"}]
               /\ steps' = [steps EXCEPT ![p] = <<"fetchCustomer">>]
               /\ result' = [result EXCEPT ![p] = NoResult]
          ELSE /\ pending' = [pending EXCEPT ![p] = {}]
               /\ steps' = [steps EXCEPT ![p] = <<>>]
               /\ result' = [result EXCEPT ![p] = [status |-> 400, error |-> "Missing required fields",
                                                   reply |-> NULL, saved |-> NULL]]
  /\ ResetLocals(p)
  /\ UNCHANGED faults
  /\ UNCHANGED <<openai, call, customers, waCustomer, dbVars>>

LegacyFetchCustomer(p) ==
  /\ req[p].kind = "legacy_turn"
  /\ \E found \in Outcomes : Fault(p, "fetchCustomer", found) /\ (
       IF found
       THEN /\ Advance(p, "fetchCustomer", <<"getRecentSessions">>)
            /\ customer' = [customer EXCEPT ![p] = Fetched(db)]
            /\ UNCHANGED result
       ELSE /\ Advance(p, "fetchCustomer", <<>>)
            /\ Respond(p, 200, "Customer not found", "profile_not_found")
            /\ UNCHANGED customer )
  /\ UNCHANGED <<openai, call, customers, waCustomer, dbVars, req, plan, cart, sessionContext, workerResult, recentSessions, currentSpend>>

\* getRecentSessions returns; the cart of the turn is the cart of the latest record
LegacyGetRecentSessions(p) ==
  /\ req[p].kind = "legacy_turn"
  /\ Advance(p, "getRecentSessions", <<"classifyIntent">>)
  /\ \E ok \in Outcomes :
       /\ Fault(p, "getRecentSessions", ok)
       /\ recentSessions' = [recentSessions EXCEPT ![p] = Len(RecentSessionsResult(ok))]
       /\ LET c == IF ok THEN LegacyCartOf(conversation_memory) ELSE <<>> IN
          /\ sessionContext' = [sessionContext EXCEPT ![p] =
               [cart |-> c,
                lastRecommended |-> customer[p].lastRecommended,
                lastBrowsedCategory |-> customer[p].lastBrowsedCategory,
                channel_switched |-> ChannelSwitched(customer[p].last_seen_channel, req[p].channel),
                previous_channel |-> customer[p].last_seen_channel,
                current_channel |-> req[p].channel]]
          /\ cart' = [cart EXCEPT ![p] = c]
  /\ UNCHANGED <<openai, call, customers, waCustomer, dbVars, req, customer, plan, workerResult, currentSpend, result>>

\* classifyIntent returns or throws; the if-chain on plan.intent runs to its first await
LegacyClassifyIntent(p) ==
  /\ req[p].kind = "legacy_turn"
  /\ "classifyIntent" \in pending[p]
  /\ \E ok \in Outcomes, intent \in LegacyIntents, ts \in {"missing", "empty", "some"} :
       /\ Fault(p, "classifyIntent", ok)
       /\ (~ok) => (intent = "other" /\ ts = "empty")
       /\ (intent # "check_inventory") => ts = "empty"
       /\ CASE ~ok ->
                 /\ Advance(p, "classifyIntent", <<>>)
                 /\ Respond(p, 500, "classification failed", "sorry")
                 /\ UNCHANGED <<plan, workerResult>>
            [] ok /\ intent = "recommend" ->
                 /\ Advance(p, "classifyIntent", <<"recommendationAgent">>)
                 /\ plan' = [plan EXCEPT ![p] = [intent |-> intent, raw |-> intent, target_skus |-> ts]]
                 /\ UNCHANGED <<workerResult, result>>
            [] ok /\ intent = "check_inventory" /\ ts = "missing" ->
                 /\ Advance(p, "classifyIntent", <<>>)
                 /\ plan' = [plan EXCEPT ![p] = [intent |-> intent, raw |-> intent, target_skus |-> ts]]
                 /\ Respond(p, 500, "TypeError", "sorry")
                 /\ UNCHANGED workerResult
            [] ok /\ intent = "check_inventory" /\ ts # "missing" ->
                 /\ Advance(p, "classifyIntent",
                            IF ts = "some" \/ cart[p] # <<>>
                            THEN <<"checkInventory">> ELSE <<"updateSession">>)
                 /\ plan' = [plan EXCEPT ![p] = [intent |-> intent, raw |-> intent, target_skus |-> ts]]
                 /\ UNCHANGED <<workerResult, result>>
            [] ok /\ intent = "checkout" ->
                 /\ Advance(p, "classifyIntent", LegacyCheckoutNext("classifyIntent", "any"))
                 /\ plan' = [plan EXCEPT ![p] = [intent |-> intent, raw |-> intent, target_skus |-> ts]]
                 /\ LET loyalty == LegacyLoyaltyAgent(customer[p].loyalty_tier,
                                                      CartTotal(cart[p]), NULL)
                    IN workerResult' = [workerResult EXCEPT ![p].discount = loyalty.discount,
                                                            ![p].finalAmount = loyalty.finalAmount]
                 /\ UNCHANGED result
            [] ok /\ intent = "post_purchase" ->
                 /\ Advance(p, "classifyIntent", <<"recentOrders">>)
                 /\ plan' = [plan EXCEPT ![p] = [intent |-> intent, raw |-> intent, target_skus |-> ts]]
                 /\ UNCHANGED <<workerResult, result>>
            [] ok /\ intent \in {"smalltalk", "other"} ->
                 /\ Advance(p, "classifyIntent", <<"updateSession">>)
                 /\ plan' = [plan EXCEPT ![p] = [intent |-> intent, raw |-> intent, target_skus |-> ts]]
                 /\ UNCHANGED <<workerResult, result>>
  /\ UNCHANGED <<openai, call, customers, waCustomer, dbVars, req, customer, cart, sessionContext, recentSessions, currentSpend>>

LegacyRecommendationAgent(p) ==
  /\ req[p].kind = "legacy_turn"
  /\ Advance(p, "recommendationAgent", <<"updateSession">>)
  /\ \E first \in Recommended \cup {NULL} :
       /\ workerResult' = [workerResult EXCEPT ![p].recommendations = first]
       /\ sessionContext' = [sessionContext EXCEPT ![p] = RecordRecommendation(@, first)]
  /\ UNCHANGED <<faults, failed>>
  /\ UNCHANGED <<openai, call, customers, waCustomer, dbVars, req, customer, plan, cart, recentSessions, currentSpend, result>>

\* checkInventory or the orders query of post_purchase returns
LegacyLookup(p) ==
  /\ req[p].kind = "legacy_turn"
  /\ \E c \in {"checkInventory", "recentOrders"} : Advance(p, c, <<"updateSession">>)
  /\ UNCHANGED <<faults, failed>>
  /\ UNCHANGED <<openai, call, customers, waCustomer, dbVars, req, customer, plan, cart, sessionContext, workerResult,
                 recentSessions, currentSpend, result>>

LegacyPaymentAgent(p) ==
  /\ req[p].kind = "legacy_turn"
  /\ \E st \in PaymentOutcomes :
       LegacySagaStep(p, "paymentAgent", st, [workerResult[p] EXCEPT !.payment = st])
  /\ UNCHANGED <<faults, failed>>
  /\ UNCHANGED <<openai, call, customers, waCustomer, dbVars, req, customer, plan, recentSessions, currentSpend, result>>

LegacyCreateOrder(p) ==
  /\ req[p].kind = "legacy_turn"
  /\ \E ok \in Outcomes : Fault(p, "createOrder", ok) /\ (
       IF ok
       THEN /\ orders' = Append(orders,
                 NewOrder(Len(orders) + 1, p, cart[p], workerResult[p].finalAmount))
            /\ LegacySagaStep(p, "createOrder", "ok", [workerResult[p] EXCEPT !.orderId = Len(orders) + 1])
       ELSE /\ UNCHANGED orders
            /\ LegacySagaStep(p, "createOrder", "failed", workerResult[p]) )
  /\ UNCHANGED <<openai, call, customers, waCustomer, db, payment_transactions, conversation_memory, lastWriter, req,
                 customer, plan, recentSessions, currentSpend, result>>

LegacyLogPayment(p) ==
  /\ req[p].kind = "legacy_turn"
  /\ \E ok \in Outcomes :
       /\ Fault(p, "logPayment", ok)
       /\ payment_transactions' =
            IF ok
            THEN Append(payment_transactions,
                   [order_id |-> workerResult[p].orderId, by |-> p,
                    amount |-> workerResult[p].finalAmount, status |-> workerResult[p].payment])
            ELSE payment_transactions
       /\ LegacySagaStep(p, "logPayment", IF ok THEN "ok" ELSE "failed", workerResult[p])
  /\ UNCHANGED <<openai, call, customers, waCustomer, db, orders, conversation_memory, lastWriter, req,
                 customer, plan, recentSessions, currentSpend, result>>

\* updateCustomerSpend: supabase.rpc("increment_customer_spend") returns
LegacyUpdateCustomerSpend(p) ==
  /\ req[p].kind = "legacy_turn"
  /\ \E ok \in Outcomes :
       /\ Fault(p, "increment_customer_spend", ok)
       /\ db' = IF ok
                THEN [db EXCEPT !.total_spend = @ + workerResult[p].finalAmount]
                ELSE db
       /\ LegacySagaStep(p, "increment_customer_spend", IF ok THEN "ok" ELSE "failed", workerResult[p])
  /\ UNCHANGED <<openai, call, customers, waCustomer, orders, payment_transactions, conversation_memory, lastWriter, req,
                 customer, plan, recentSessions, currentSpend, result>>

LegacyUpdateSession(p) ==
  /\ req[p].kind = "legacy_turn"
  /\ Advance(p, "updateSession", <<"generateReply">>)
  /\ \E ok \in Outcomes :
       /\ Fault(p, "updateSession", ok)
       /\ conversation_memory' =
            IF ok
            THEN Append(conversation_memory,
                   [by |-> p, channel |-> req[p].channel, intent |-> plan[p].intent,
                    cart |-> cart[p]])
            ELSE conversation_memory
  /\ UNCHANGED <<openai, call, customers, waCustomer, db, orders, payment_transactions, lastWriter, req, customer, plan,
                 cart, sessionContext, workerResult, recentSessions, currentSpend, result>>

\* openai.chat.completions.create for the reply returns, or throws into the route's catch
LegacyGenerateReply(p) ==
  /\ req[p].kind = "legacy_turn"
  /\ \E ok \in Outcomes : Fault(p, "generateReply", ok) /\ (
       IF ok
       THEN /\ Advance(p, "generateReply", <<"updateCustomerChannel">>)
            /\ result' = [result EXCEPT ![p].reply = "ai_reply"]
       ELSE /\ Advance(p, "generateReply", <<>>)
            /\ Respond(p, 500, "reply generation failed", "sorry") )
  /\ UNCHANGED <<openai, call, customers, waCustomer, dbVars, req, customer, plan, cart, sessionContext, workerResult,
                 recentSessions, currentSpend>>

LegacyUpdateCustomerChannel(p) ==
  /\ req[p].kind = "legacy_turn"
  /\ Advance(p, "updateCustomerChannel", <<>>)
  /\ \E ok \in Outcomes :
       /\ Fault(p, "updateCustomerChannel", ok)
       /\ db' = IF ok
                THEN WriteSnapshot(db, req[p].channel, sessionContext[p].cart,
                                   sessionContext[p].lastRecommended,
                                   sessionContext[p].lastBrowsedCategory)
                ELSE db
       /\ lastWriter' = IF ok THEN p ELSE lastWriter
       /\ result' = [result EXCEPT ![p] = [status |-> 200, error |-> NULL, reply |-> @.reply,
                                           saved |-> IF ok THEN "ok" ELSE "failed"]]
  /\ UNCHANGED <<openai, call, customers, waCustomer, orders, payment_transactions, conversation_memory, req, customer,
                 plan, cart, sessionContext, workerResult, recentSessions, currentSpend>>

\* app.post("/api/cart"): the body is validated (customer_id and sku required)
LegacyPostCart(p) ==
  /\ req[p].kind = "idle"
  /\ \E sku \in Skus, qty \in 0..MaxQty, price \in Prices, ch \in Channels, valid \in BOOLEAN :
       /\ req' = [req EXCEPT ![p] = [kind |-> "legacy_post", channel |-> ch, query |-> <<>>,
                                     sku |-> sku, qty |-> qty, price |-> price]]
       /\ IF valid
          THEN /\ pending' = [pending EXCEPT ![p] = {"fetchCustomer"}]
               /\ steps' = [steps EXCEPT ![p] = <<"fetchCustomer">>]
               /\ result' = [result EXCEPT ![p] = NoResult]
          ELSE /\ pending' = [pending EXCEPT ![p] = {}]
               /\ steps' = [steps EXCEPT ![p] = <<>>]
               /\ result' = [result EXCEPT ![p] = [status |-> 400, error |-> "Missing required fields",
                                                   reply |-> NULL, saved |-> NULL]]
  /\ ResetLocals(p)
  /\ UNCHANGED faults
  /\ UNCHANGED <<openai, call, customers, waCustomer, dbVars>>

\* app.post("/api/cart"): fetchCustomer returns and the line is added
LegacyPostCartFetchCustomer(p) ==
  /\ req[p].kind = "legacy_post"
  /\ \E found \in Outcomes : Fault(p, "fetchCustomer", found) /\ (
       IF found
       THEN /\ customer' = [customer EXCEPT ![p] = Fetched(db)]
            /\ cart' = [cart EXCEPT ![p] = LegacyAddToCart(db.cart, req[p].sku, req[p].qty, req[p].price)]
            /\ Advance(p, "fetchCustomer", <<"updateCustomerChannel">>)
            /\ UNCHANGED result
       ELSE /\ Advance(p, "fetchCustomer", <<>>)
            /\ Respond(p, 404, "Customer not found", NULL)
            /\ UNCHANGED <<customer, cart>> )
  /\ UNCHANGED <<openai, call, customers, waCustomer, dbVars, req, plan, sessionContext, workerResult, recentSessions, currentSpend>>

\* app.post("/api/cart"): updateCustomerChannel(customer_id, channel || "web", session)
LegacyPostCartUpdateCustomerChannel(p) ==
  /\ req[p].kind = "legacy_post"
  /\ Advance(p, "updateCustomerChannel", <<>>)
  /\ \E ok \in Outcomes :
       /\ Fault(p, "updateCustomerChannel", ok)
       /\ db' = IF ok
                THEN WriteSnapshot(db, req[p].channel, cart[p], customer[p].lastRecommended,
                                   customer[p].lastBrowsedCategory)
                ELSE db
       /\ lastWriter' = IF ok THEN p ELSE lastWriter
       /\ result' = [result EXCEPT ![p] = [status |-> 200, error |-> NULL, reply |-> NULL,
                                           saved |-> IF ok THEN "ok" ELSE "failed"]]
  /\ UNCHANGED <<openai, call, customers, waCustomer, orders, payment_transactions, conversation_memory, req, customer,
                 plan, cart, sessionContext, workerResult, recentSessions, currentSpend>>

\* ------------------------------------------------------------ specification
Next ==
  \E p \in Procs :
    \/ PostRetailOrchestrator(p)
    \/ RouteFetchCustomer(p)
    \/ fetchCustomerById(p)
    \/ getRecentSessions(p)
    \/ classifyIntent(p)
    \/ recommendationAgent(p)
    \/ checkInventory(p)
    \/ recentOrders(p)
    \/ paymentAgent(p)
    \/ createOrder(p)
    \/ logPayment(p)
    \/ updateCustomerSpendSelect(p)
    \/ updateCustomerSpendUpdate(p)
    \/ updateSession(p)
    \/ generateReply(p)
    \/ updateCustomerChannel(p)
    \/ PostCart(p)
    \/ PostCartFetchCustomer(p)
    \/ PostCartProductName(p)
    \/ PostCartUpdateCustomerChannel(p)
    \/ DeleteCart(p)
    \/ DeleteCartFetchCustomer(p)
    \/ DeleteCartUpdateCustomerChannel(p)

Spec == Init /\ [][Next]_vars

\* the state after construction, the snapshot holding a cart of one line
InitOneLine == InitWith({<<[sku |-> "S1", qty |-> 1, price |-> 1000]>>})

SpecOneLine == InitOneLine /\ [][Next]_vars

\* the steps of a POST /retail-orchestrator request handled by task p
TurnSteps(p) ==
  \/ PostRetailOrchestrator(p)
  \/ RouteFetchCustomer(p)
  \/ fetchCustomerById(p)
  \/ getRecentSessions(p)
  \/ classifyIntent(p)
  \/ recommendationAgent(p)
  \/ checkInventory(p)
  \/ recentOrders(p)
  \/ paymentAgent(p)
  \/ createOrder(p)
  \/ logPayment(p)
  \/ updateCustomerSpendSelect(p)
  \/ updateCustomerSpendUpdate(p)
  \/ updateSession(p)
  \/ generateReply(p)
  \/ updateCustomerChannel(p)

\* the steps of a POST /cart or DELETE /cart request handled by task p
CartSteps(p) ==
  \/ PostCart(p)
  \/ PostCartFetchCustomer(p)
  \/ PostCartProductName(p)
  \/ PostCartUpdateCustomerChannel(p)
  \/ DeleteCart(p)
  \/ DeleteCartFetchCustomer(p)
  \/ DeleteCartUpdateCustomerChannel(p)

\* one turn, run by p1, beside one cart request of the same customer, run by p2
NextTurn == TurnSteps("p1") \/ CartSteps("p2")

\* a call in flight returns or throws
CallReturns == NextTurn /\ \E p \in Procs : pending[p] # {} /\ pending'[p] # pending[p]

\* every call in flight eventually returns or throws
SpecFair == Init /\ [][NextTurn]_vars /\ WF_vars(CallReturns)

\* the earlier variant always constructs the OpenAI client
InitLegacy == Init /\ openai = TRUE

NextLegacy ==
  \E p \in Procs :
    \/ LegacyPostRetailOrchestrator(p)
    \/ LegacyFetchCustomer(p)
    \/ LegacyGetRecentSessions(p)
    \/ LegacyClassifyIntent(p)
    \/ LegacyRecommendationAgent(p)
    \/ LegacyLookup(p)
    \/ LegacyPaymentAgent(p)
    \/ LegacyCreateOrder(p)
    \/ LegacyLogPayment(p)
    \/ LegacyUpdateCustomerSpend(p)
    \/ LegacyUpdateSession(p)
    \/ LegacyGenerateReply(p)
    \/ LegacyUpdateCustomerChannel(p)
    \/ LegacyPostCart(p)
    \/ LegacyPostCartFetchCustomer(p)
    \/ LegacyPostCartUpdateCustomerChannel(p)

SpecLegacy == InitLegacy /\ [][NextLegacy]_vars

\* ------------------------------------------------- the synchronous workers
\* rows of the inventory table: at most one row per sku and location
StoreLocation == "Mumbai"
Locations == <<"online_warehouse", "Mumbai", "Pune">>
Stocks == (0 - 1) .. MaxStock
\* no row, or the stock of the one row
RowChoices == {<<>>} \cup {<<s>> : s \in Stocks}
SkuSeq == <<"S1", "S2">>
SkuLists == {<<"S1">>, <<"S2">>, <<"S1", "S2">>}

\* the rows of the table, from the choice made for each sku and location
RECURSIVE TableRows(_, _, _)
TableRows(choice, i, j) ==
  IF i > Len(SkuSeq) THEN <<>>
  ELSE IF j > Len(Locations) THEN TableRows(choice, i + 1, 1)
  ELSE (IF choice[<<SkuSeq[i], Locations[j]>>] = <<>> THEN <<>>
        ELSE <<[sku |-> SkuSeq[i], location |-> Locations[j],
                stock |-> choice[<<SkuSeq[i], Locations[j]>>][1]]>>)
       \o TableRows(choice, i, j + 1)

\* .from("inventory").select("*").in("sku", skuList)
RECURSIVE SelectIn(_, _)
SelectIn(rows, skuList) ==
  IF rows = <<>> THEN <<>>
  ELSE (IF rows[1].sku \in Range(skuList) THEN <<rows[1]>> ELSE <<>>)
       \o SelectIn(Tail(rows), skuList)

\* position of the entry of sku in the inventoryMap, 0 when it has none
RECURSIVE MapIndex(_, _, _)
MapIndex(map, sku, i) ==
  IF i > Len(map) THEN 0
  ELSE IF map[i].sku = sku THEN i
  ELSE MapIndex(map, sku, i + 1)

\* the body of data.forEach: create the entry of inv.sku if it is missing, then
\* set onlineStock or storeStock from the row
AddRow(map, inv, customerStoreLocation) ==
  LET m == IF MapIndex(map, inv.sku, 1) = 0
           THEN Append(map, [sku |-> inv.sku, storeLocation |-> customerStoreLocation,
                             onlineStock |-> 0, storeStock |-> 0,
                             fulfillmentOptions |-> <<>>])
           ELSE map
      i == MapIndex(m, inv.sku, 1)
  IN IF inv.location = "online_warehouse" THEN [m EXCEPT ![i].onlineStock = inv.stock]
     ELSE IF inv.location = customerStoreLocation THEN [m EXCEPT ![i].storeStock = inv.stock]
     ELSE m

RECURSIVE BuildInventoryMap(_, _, _)
BuildInventoryMap(map, data, customerStoreLocation) ==
  IF data = <<>> THEN map
  ELSE BuildInventoryMap(AddRow(map, data[1], customerStoreLocation), Tail(data),
                         customerStoreLocation)

\* the option list without its default
FulfillmentOptionsNoDefault(onlineStock, storeStock) ==
  (IF onlineStock > 0 THEN <<"ship_to_home">> ELSE <<>>)
  \o (IF storeStock > 0 THEN <<"click_and_collect", "reserve_in_store">> ELSE <<>>)

\* the three pushes on item.fulfillmentOptions
FulfillmentOptions(onlineStock, storeStock) ==
  LET some == (IF onlineStock > 0 THEN <<"ship_to_home">> ELSE <<>>)
              \o (IF storeStock > 0 THEN <<"click_and_collect", "reserve_in_store">> ELSE <<>>)
  IN IF Len(some) = 0 THEN <<"ship_to_home">> ELSE some

\* checkInventory(skuList, customerStoreLocation): [] when the query failed,
\* otherwise Object.values(inventoryMap)
CheckInventoryResult(rows, skuList, customerStoreLocation, ok) ==
  IF ~ok THEN <<>>
  ELSE LET map == BuildInventoryMap(<<>>, SelectIn(rows, skuList), customerStoreLocation)
       IN [i \in 1..Len(map) |->
             [map[i] EXCEPT !.fulfillmentOptions =
                FulfillmentOptions(map[i].onlineStock, map[i].storeStock)]]

\* the inventory tables: any rows for S1, fewer for S2
Tables ==
  { [k \in Skus \X Range(Locations) |->
       CASE k = <<"S1", "online_warehouse">> -> a
         [] k = <<"S1", "Mumbai">> -> b
         [] k = <<"S1", "Pune">> -> c
         [] k = <<"S2", "online_warehouse">> -> d
         [] k = <<"S2", "Mumbai">> -> e
         [] OTHER -> <<>>] :
    a \in RowChoices, b \in RowChoices, c \in {<<>>, <<1>>}, d \in {<<>>, <<0>>},
    e \in {<<>>, <<1>>} }

\* a call of checkInventory on some inventory table
CallCheckInventory ==
  \E choice \in Tables, skuList \in SkuLists, ok \in BOOLEAN :
    /\ call' = [fn |-> "checkInventory",
                args |-> [rows |-> TableRows(choice, 1, 1), skuList |-> skuList, ok |-> ok],
                ret |-> CheckInventoryResult(TableRows(choice, 1, 1), skuList, StoreLocation, ok)]
    /\ UNCHANGED <<openai, customers, waCustomer, dbVars, faults, req, pending, customer, plan,
                   cart, sessionContext, workerResult, recentSessions, currentSpend, failed,
                   steps, result>>

\* the customers' tiers: those of the rules, another one, and none
Tiers == KnownTiers \cup {"diamond", NULL}
\* cart totals: multiples of 20, of which every tier percent is a whole amount
CartTotals == {0, 200, 2000}
Coupons == {NULL, "FLAT500"}

\* a call of loyaltyAgent
CallLoyaltyAgent ==
  \E tier \in Tiers, cartTotal \in CartTotals, couponCode \in Coupons :
    /\ call' = [fn |-> "loyaltyAgent",
                args |-> [tier |-> tier, cartTotal |-> cartTotal, couponCode |-> couponCode],
                ret |-> loyaltyAgent(tier, cartTotal, couponCode)]
    /\ UNCHANGED <<openai, customers, waCustomer, dbVars, faults, req, pending, customer, plan,
                   cart, sessionContext, workerResult, recentSessions, currentSpend, failed,
                   steps, result>>

\* a call of loyaltyAgent of the earlier variant
CallLegacyLoyaltyAgent ==
  \E tier \in Tiers, cartTotal \in CartTotals, couponCode \in Coupons :
    /\ call' = [fn |-> "legacy loyaltyAgent",
                args |-> [tier |-> tier, cartTotal |-> cartTotal, couponCode |-> couponCode],
                ret |-> LegacyLoyaltyAgent(tier, cartTotal, couponCode)]
    /\ UNCHANGED <<openai, customers, waCustomer, dbVars, faults, req, pending, customer, plan,
                   cart, sessionContext, workerResult, recentSessions, currentSpend, failed,
                   steps, result>>

\* utterances that match two keyword groups, and the empty one
BuyStock == <<"B", "U", "Y", " ", "s", "t", "o", "c", "k">>
PayOrder == <<"p", "a", "y", " ", "o", "r", "d", "e", "r">>
HiReturn == <<"H", "i", " ", "r", "e", "t", "u", "r", "n">>
Shirt == <<"s", "h", "i", "r", "t">>
WorkerUtterances == Utterances \cup {BuyStock, PayOrder, HiReturn, Shirt, <<>>}

\* a call of classifyIntent when there is no OpenAI client
CallClassifyIntent ==
  \E userQuery \in WorkerUtterances :
    /\ ~openai
    /\ call' = [fn |-> "classifyIntent", args |-> [userQuery |-> userQuery],
                ret |-> KeywordIntent(userQuery)]
    /\ UNCHANGED <<openai, customers, waCustomer, dbVars, faults, req, pending, customer, plan,
                   cart, sessionContext, workerResult, recentSessions, currentSpend, failed,
                   steps, result>>

\* the workers are called with the client absent and the store untouched
InitWorkers == Init /\ openai = FALSE /\ db.cart = <<>>

NextWorkers ==
  \/ CallCheckInventory
  \/ CallLoyaltyAgent
  \/ CallLegacyLoyaltyAgent
  \/ CallClassifyIntent

SpecWorkers == InitWorkers /\ [][NextWorkers]_vars

\* ------------------------------------------------- the WhatsApp webhook
\* the row inserted for a sender that was not found
NewWhatsAppCustomer(id) ==
  [id |-> id, name |-> "WhatsApp User", loyalty_tier |-> "bronze", total_spend |-> 0,
   last_seen_channel |-> "whatsapp", cart |-> <<>>]

\* the customer as the handler holds it
Held(row) == [id |-> row.id, name |-> row.name, loyalty_tier |-> row.loyalty_tier]

\* the handler with its test of the customer for null dropped
AfterFindOrCreateNoNullTest(c, profileName) ==
  IF profileName /\ c.name \in {NULL, "WhatsApp User"}
  THEN <<"updateName">>
  ELSE <<"runRetailOrchestrator">>

\* what the handler awaits once findOrCreateWhatsAppCustomer has returned c: nothing
\* when c is null, the name update when a profile name came with a customer that
\* has none of its own, the turn otherwise
AfterFindOrCreate(c, profileName) ==
  IF c = NoWaCustomer THEN <<>>
  ELSE IF profileName /\ c.name \in {NULL, "WhatsApp User"}
  THEN <<"updateName">>
  ELSE <<"runRetailOrchestrator">>

\* findOrCreateWhatsAppCustomer has returned c
WhatsAppResolved(p, call0, c) ==
  \E profileName \in BOOLEAN :
    /\ waCustomer' = [waCustomer EXCEPT ![p] = c]
    /\ Advance(p, call0, AfterFindOrCreate(c, profileName))
    /\ IF AfterFindOrCreate(c, profileName) = <<>>
       THEN result' = [result EXCEPT ![p] = [status |-> 200, error |-> NULL,
                                             reply |-> "trouble_accessing_account",
                                             saved |-> NULL]]
       ELSE UNCHANGED result

\* router.post("/whatsapp"): an empty message is answered at once, another one
\* starts findOrCreateWhatsAppCustomer with the select by phone number
PostWhatsApp(p) ==
  /\ req[p].kind = "idle"
  /\ \E msg \in {<<>>, Hey, BuyNow} :
       /\ req' = [req EXCEPT ![p] = [kind |-> "whatsapp", channel |-> "whatsapp", query |-> msg,
                                     sku |-> NULL, qty |-> 0, price |-> 0]]
       /\ IF msg = <<>>
          THEN /\ UNCHANGED <<pending, steps>>
               /\ result' = [result EXCEPT ![p] = [status |-> 200, error |-> NULL,
                                                   reply |-> "did_not_receive_message",
                                                   saved |-> NULL]]
          ELSE /\ pending' = [pending EXCEPT ![p] = {"findCustomer"}]
               /\ steps' = [steps EXCEPT ![p] = <<"findCustomer">>]
               /\ UNCHANGED result
  /\ UNCHANGED <<openai, call, customers, waCustomer, dbVars, faults, customer, plan, cart,
                 sessionContext, workerResult, recentSessions, currentSpend, failed>>

\* the select .eq("phone_number", phoneNumber).single() returns: the row when there
\* is exactly one, an error otherwise, after which the insert is issued; or it
\* throws and findOrCreateWhatsAppCustomer returns null
WhatsAppFindCustomer(p) ==
  /\ req[p].kind = "whatsapp"
  /\ "findCustomer" \in pending[p]
  /\ \E ok \in Outcomes, threw \in BOOLEAN :
       /\ ok => ~threw
       /\ Fault(p, "findCustomer", ok)
       /\ IF ok /\ Len(customers) = 1
          THEN WhatsAppResolved(p, "findCustomer", Held(customers[1]))
          ELSE IF threw
          THEN WhatsAppResolved(p, "findCustomer", NoWaCustomer)
          ELSE /\ Advance(p, "findCustomer", <<"createCustomer">>)
               /\ UNCHANGED <<waCustomer, result>>
  /\ UNCHANGED <<openai, call, customers, dbVars, req, customer, plan, cart, sessionContext,
                 workerResult, recentSessions, currentSpend>>

\* the insert returns: the new row, or an error and findOrCreateWhatsAppCustomer
\* returns null
WhatsAppCreateCustomer(p) ==
  /\ req[p].kind = "whatsapp"
  /\ "createCustomer" \in pending[p]
  /\ \E ok \in Outcomes :
       /\ Fault(p, "createCustomer", ok)
       /\ IF ok
          THEN /\ customers' = Append(customers, NewWhatsAppCustomer(Len(customers) + 1))
               /\ WhatsAppResolved(p, "createCustomer",
                                   Held(NewWhatsAppCustomer(Len(customers) + 1)))
          ELSE /\ UNCHANGED customers
               /\ WhatsAppResolved(p, "createCustomer", NoWaCustomer)
  /\ UNCHANGED <<openai, call, dbVars, req, customer, plan, cart, sessionContext,
                 workerResult, recentSessions, currentSpend>>

\* the update of the name returns, its result is not looked at; the turn follows
WhatsAppUpdateName(p) ==
  /\ req[p].kind = "whatsapp"
  /\ Advance(p, "updateName", <<"runRetailOrchestrator">>)
  /\ \E ok \in Outcomes :
       /\ Fault(p, "updateName", ok)
       /\ customers' = IF ok
                       THEN [i \in 1..Len(customers) |->
                               IF customers[i].id = waCustomer[p].id
                               THEN [customers[i] EXCEPT !.name = "ProfileName"]
                               ELSE customers[i]]
                       ELSE customers
  /\ UNCHANGED <<openai, call, waCustomer, dbVars, req, customer, plan, cart, sessionContext,
                 workerResult, recentSessions, currentSpend, result>>

\* runRetailOrchestrator(incomingMsg.trim(), customer.id, "whatsapp") returns its
\* result, the reply of the turn or the apology of its catch, which is sent as
\* the TwiML message; the calls of the turn itself are the turn actions of Next
WhatsAppRunRetailOrchestrator(p) ==
  /\ req[p].kind = "whatsapp"
  /\ Advance(p, "runRetailOrchestrator", <<>>)
  /\ \E ok \in Outcomes :
       /\ Fault(p, "runRetailOrchestrator", ok)
       /\ result' = [result EXCEPT ![p] = [status |-> 200, error |-> NULL,
                                           reply |-> IF ok THEN "reply" ELSE "apology",
                                           saved |-> IF ok THEN "ok" ELSE "failed"]]
  /\ UNCHANGED <<openai, call, customers, waCustomer, dbVars, req, customer, plan, cart,
                 sessionContext, workerResult, recentSessions, currentSpend>>

NextWhatsApp ==
  \E p \in Procs :
    \/ PostWhatsApp(p)
    \/ WhatsAppFindCustomer(p)
    \/ WhatsAppCreateCustomer(p)
    \/ WhatsAppUpdateName(p)
    \/ WhatsAppRunRetailOrchestrator(p)

SpecWhatsApp == InitWorkers /\ [][NextWhatsApp]_vars

\* ------------------------------------------------------------------ claims
Count(seq, x) == Cardinality({i \in 1..Len(seq) : seq[i] = x})
OrdersBy(p) == {i \in 1..Len(orders) : orders[i].by = p}
PaymentsBy(p) == {i \in 1..Len(payment_transactions) : payment_transactions[i].by = p}
IsTurn(p) == req[p].kind = "turn"
\* the turn ran to its return statement
Returned(p) == IsTurn(p) /\ pending[p] = {} /\ result[p].saved # NULL
\* the session_context row is the one this task wrote
Persisted(p) == result[p].saved = "ok" /\ lastWriter = p
SpendSteps == {"updateCustomerSpend.select", "updateCustomerSpend.update"}

\* C1: in a checkout turn whose payment is declined no order is created, no
\* payment-success record is logged, no spend update is made, and the cart the
\* turn persists equals the cart it loaded.
C1_DeclinedHasNoEffect ==
  \A p \in Procs :
    (IsTurn(p) /\ workerResult[p].payment = "declined") =>
      /\ OrdersBy(p) = {}
      /\ PaymentsBy(p) = {}
      /\ "createOrder" \notin Range(steps[p])
      /\ "logPayment" \notin Range(steps[p])
      /\ Range(steps[p]) \cap SpendSteps = {}
      /\ cart[p] = customer[p].cart
      /\ sessionContext[p].cart = customer[p].cart
      /\ (Persisted(p) => db.cart = customer[p].cart)

C1_Witness ==
  \E p \in Procs :
    /\ Returned(p) /\ workerResult[p].payment = "declined"
    /\ Persisted(p) /\ customer[p].cart # <<>>

C3_OrderFailureIsFlagged ==
  \A p \in Procs :
    (Returned(p) /\ workerResult[p].payment = "success" /\ workerResult[p].orderId = 0) =>
      /\ (result[p].error # NULL \/ workerResult[p].checkout # NULL)
      /\ result[p].reply # "payment_successful"

\* C4: the checkout steps of a turn are issued in the order loyaltyAgent,
\* paymentAgent, createOrder, logPayment, updateCustomerSpend, fulfillmentAgent;
\* a step is issued only when its predecessor has returned, no step follows a
\* decline or a failed order insert, and at most one call is in flight.
SagaOrder ==
  <<"loyaltyAgent", "paymentAgent", "createOrder", "logPayment",
    "updateCustomerSpend.select", "updateCustomerSpend.update", "fulfillmentAgent">>
Saga(p) == SelectSeq(steps[p], LAMBDA x : x \in Range(SagaOrder))
IsPrefix(a, b) == Len(a) <= Len(b) /\ \A i \in 1..Len(a) : a[i] = b[i]

C4_SagaIsSequential ==
  \A p \in Procs :
    IsTurn(p) =>
      /\ IsPrefix(Saga(p), SagaOrder)
      /\ Cardinality(pending[p]) <= 1
      /\ \A i \in 1..Len(steps[p]) : steps[p][i] \in pending[p] => i = Len(steps[p])
      /\ (workerResult[p].checkout # NULL => Saga(p) = <<>>)
      /\ (workerResult[p].payment = "declined" => Len(Saga(p)) = 2)
      /\ (workerResult[p].payment = "success" /\ workerResult[p].orderId = 0
            /\ "createOrder" \notin pending[p] => Len(Saga(p)) = 3)
      /\ (Returned(p) /\ workerResult[p].orderId # 0 => Saga(p) = SagaOrder)

C4_Witness ==
  \E p \in Procs : Returned(p) /\ Saga(p) = SagaOrder

\* C5: a checkout turn on an empty cart aborts with the cart-empty result and
\* issues none of the checkout steps.
C5_EmptyCartAborts ==
  \A p \in Procs :
    (plan[p].intent = "checkout" /\ cart[p] = <<>>
       /\ "fulfillmentAgent" \notin Range(steps[p])) =>
      /\ Saga(p) = <<>>
      /\ workerResult[p].checkout = "Cart is empty"
      /\ OrdersBy(p) = {} /\ PaymentsBy(p) = {}

\* C6: once the order is persisted the turn hands an empty cart and a null
\* lastRecommended to the snapshot write whether fulfillment is scheduled or
\* failed; the order stays, and nothing but the interaction record, the reply and
\* the snapshot write follows fulfillment.
AfterFulfillment(p) ==
  {steps[p][i] : i \in {j \in 1..Len(steps[p]) :
                          \E k \in 1..(j - 1) : steps[p][k] = "fulfillmentAgent"}}

C6_CommittedClearsCart ==
  \A p \in Procs :
    (IsTurn(p) /\ workerResult[p].fulfillment # NULL) =>
      /\ workerResult[p].orderId # 0
      /\ cart[p] = <<>>
      /\ sessionContext[p].cart = <<>>
      /\ sessionContext[p].lastRecommended = NULL
      /\ (Persisted(p) => db.cart = <<>> /\ db.lastRecommended = NULL)
      /\ \E i \in OrdersBy(p) :
           /\ orders[i].order_id = workerResult[p].orderId
           /\ orders[i].status = "pending"
      /\ AfterFulfillment(p) \subseteq {"updateSession", "generateReply", "updateCustomerChannel"}

C6_Witness ==
  \E p \in Procs :
    /\ Returned(p) /\ workerResult[p].fulfillment = "failed"
    /\ customer[p].lastRecommended # NULL /\ customer[p].cart # <<>>
    /\ Persisted(p)

\* C7: every payment attempt of a checkout turn leaves a payment record, for a
\* success and for a decline.
C7_EveryPaymentIsRecorded ==
  \A p \in Procs :
    (Returned(p) /\ workerResult[p].payment # NULL) => PaymentsBy(p) # {}

\* C8: total_spend never decreases, and it changes only when the spend update of
\* a checkout whose payment succeeded returns.
C8_SpendNeverDecreases ==
  [][ /\ db'.total_spend >= db.total_spend
      /\ (db'.total_spend # db.total_spend =>
            \E p \in Procs :
              /\ IsTurn(p) /\ workerResult[p].payment = "success"
              /\ "updateCustomerSpend.update" \in pending[p]
              /\ "updateCustomerSpend.update" \notin pending'[p]) ]_vars

\* C9: the persisted cart holds each sku at most once.
UniqueSkus(c) == \A i, j \in 1..Len(c) : c[i].sku = c[j].sku => i = j

C9_PersistedCartSkusUnique == UniqueSkus(db.cart)

C9_Witness ==
  \E p, q \in Procs :
    /\ p # q
    /\ req[p].kind = "post" /\ result[p].saved = "ok"
    /\ req[q].kind = "post" /\ Persisted(q)
    /\ req[p].sku = req[q].sku
    /\ Len(db.cart) = 2

\* C10: POST /cart for a sku the cart already holds with quantity p keeps the
\* number of lines, gives that line quantity p+q and leaves every other line as
\* it was; adding {S1, qty 1} twice to an empty cart gives one line with qty 2.
CartComputed(p) == req[p].kind = "post" /\ "updateCustomerChannel" \in Range(steps[p])

ContextBuilt(p) == IsTurn(p) /\ "classifyIntent" \in Range(steps[p])

\* C11: for every turn, channelSwitched is the boolean true when the last-seen
\* channel and the request's channel are both non-null and unequal, and the
\* boolean false otherwise (null last-seen channel, or equal channels).
C11_ChannelSwitchedIsBoolean ==
  \A p \in Procs :
    ContextBuilt(p) =>
      sessionContext[p].channel_switched =
        JsBool(/\ customer[p].last_seen_channel # NULL
               /\ req[p].channel # NULL
               /\ customer[p].last_seen_channel # req[p].channel)

\* classifyIntent has returned its plan
Classified(p) == IsTurn(p) /\ plan[p].intent # NULL

\* C12: when the OpenAI client is absent or its classification call throws, the
\* plan's intent is the keyword matcher's answer for the lower-cased utterance
\* and the turn goes on; for "is this in stock" that intent is check_inventory.
C12_FallbackUsesKeywordMatcher ==
  \A p \in Procs :
    (Classified(p) /\ (~openai \/ "classifyIntent" \in failed[p])) =>
      /\ plan[p].intent = KeywordIntent(req[p].query)
      /\ (req[p].query = IsThisInStock => plan[p].intent = "check_inventory")
      /\ result[p].error = NULL

\* the steps task p issued after classifyIntent returned
AfterClassify(p) ==
  SelectSeq(steps[p], LAMBDA x : x \notin {"fetchCustomer", "fetchCustomerById",
                                            "getRecentSessions", "classifyIntent"})

\* the first step the switch of task p issued, NULL when it issued none
Dispatched(p) == IF AfterClassify(p) = <<>> THEN NULL ELSE Head(AfterClassify(p))

Ended(p) == IsTurn(p) /\ pending[p] = {} /\ result[p].status # 0

\* C14: once classifyIntent has produced a plan, the turn appends its
\* interaction record, writes its snapshot and returns the result of the
\* classified intent, whatever downstream step failed; it never ends with the
\* generic error result.
C14_DownstreamFailureDoesNotAbort ==
  \A p \in Procs :
    (Ended(p) /\ Classified(p)) =>
      /\ "updateSession" \in Range(steps[p])
      /\ "updateCustomerChannel" \in Range(steps[p])
      /\ result[p].error = NULL
      /\ result[p].reply # "apology"

\* the interaction records task p appended
RecordsBy(p) == {i \in 1..Len(conversation_memory) : conversation_memory[i].by = p}

\* C15: a request whose user_query is empty or missing is answered 400 and a
\* request whose customer row is not found is answered 404, and in both cases
\* (and when runRetailOrchestrator itself finds no customer) the task has called
\* no classifier and no worker, appended no interaction record, and written
\* neither an order, a payment, nor the snapshot.
C15_RejectedBeforeSideEffects ==
  \A p \in Procs :
    IsTurn(p) =>
      /\ (req[p].query = <<>> => result[p].status = 400 /\ steps[p] = <<>>)
      /\ ("fetchCustomer" \in failed[p] =>
            result[p].status = 404 /\ steps[p] = <<"fetchCustomer">>)
      /\ ((result[p].status \in {400, 404} \/ result[p].error = "Customer not found") =>
            /\ pending[p] = {}
            /\ Range(steps[p]) \subseteq {"fetchCustomer", "fetchCustomerById"}
            /\ plan[p].intent = NULL
            /\ RecordsBy(p) = {} /\ OrdersBy(p) = {} /\ PaymentsBy(p) = {}
            /\ lastWriter # p /\ result[p].saved = NULL)

C15_Witness ==
  \E p, q \in Procs :
    /\ IsTurn(p) /\ result[p].status = 400
    /\ IsTurn(q) /\ result[q].status = 404 /\ "fetchCustomer" \in failed[q]

\* C16: a failed history read gives the turn an empty history and the turn
\* goes on to classify; a failed interaction-record append leaves no record
\* and the turn goes on to its reply and to exactly one snapshot write; a
\* failed snapshot write still ends the turn with status 200 and a reply.
C16_PersistenceIsBestEffort ==
  \A p \in Procs :
    IsTurn(p) =>
      /\ ("getRecentSessions" \in failed[p] =>
            /\ recentSessions[p] = 0
            /\ "classifyIntent" \in Range(steps[p]))
      /\ ("updateSession" \in failed[p] =>
            /\ RecordsBy(p) = {}
            /\ Count(steps[p], "updateCustomerChannel") = (IF "generateReply" \in pending[p] THEN 0 ELSE 1)
            /\ (pending[p] = {} => result[p].status = 200 /\ result[p].saved # NULL))
      /\ ("updateCustomerChannel" \in failed[p] =>
            /\ pending[p] = {} /\ result[p].saved = "failed")
      /\ (Returned(p) =>
            /\ result[p].status = 200 /\ result[p].error = NULL /\ result[p].reply # NULL
            /\ Count(steps[p], "updateSession") = 1
            /\ Count(steps[p], "updateCustomerChannel") = 1)

C16_Witness ==
  \E p \in Procs :
    /\ Returned(p) /\ "updateSession" \in failed[p]
    /\ plan[p].intent = "checkout" /\ workerResult[p].orderId # 0
    /\ result[p].saved = "ok" /\ lastWriter = p

\* the saga of task p has gone past the payment record and the spend update
PastSpendUpdate(p) ==
  /\ "updateCustomerSpend.update" \in Range(steps[p])
  /\ "updateCustomerSpend.update" \notin pending[p]

\* C17: when the payment-record insert or the spend update of a checkout
\* fails, the order the turn created stays in the orders table, the remaining
\* saga steps are still issued, fulfillmentAgent is invoked and the cart is
\* cleared.
C17_RecordFailureKeepsOrder ==
  \A p \in Procs :
    (IsTurn(p) /\ failed[p] \cap ({"logPayment"} \cup SpendSteps) # {}) =>
      /\ workerResult[p].orderId # 0
      /\ \E i \in OrdersBy(p) :
           orders[i].order_id = workerResult[p].orderId /\ orders[i].status = "pending"
      /\ ("logPayment" \in failed[p] =>
            PaymentsBy(p) = {} /\ "updateCustomerSpend.select" \in Range(steps[p]))
      /\ ("updateCustomerSpend.select" \in failed[p] =>
            "updateCustomerSpend.update" \in Range(steps[p]))
      /\ (PastSpendUpdate(p) =>
            /\ "fulfillmentAgent" \in Range(steps[p])
            /\ workerResult[p].fulfillment \in FulfillmentOutcomes
            /\ cart[p] = <<>> /\ sessionContext[p].cart = <<>>)
      /\ (Persisted(p) => db.cart = <<>>)

C17_Witness ==
  \E p \in Procs :
    /\ Returned(p) /\ "updateCustomerSpend.update" \in failed[p]
    /\ workerResult[p].fulfillment = "scheduled" /\ Cardinality(OrdersBy(p)) = 1
    /\ customer[p].cart # <<>> /\ Persisted(p) /\ db.cart = <<>>

\* C18: a gateway timeout comes back from paymentAgent as status declined with
\* retry_supported true, never as success; the turn then creates no order,
\* makes no spend update, keeps the cart it loaded, and calls paymentAgent
\* once only.
C18_TimeoutIsDeclined ==
  \A p \in Procs :
    IsTurn(p) =>
      /\ Count(steps[p], "paymentAgent") <= 1
      /\ (workerResult[p].paymentReason = "Payment gateway timeout" =>
            /\ workerResult[p].payment = "declined"
            /\ workerResult[p].retry_supported = "true"
            /\ "createOrder" \notin Range(steps[p]) /\ OrdersBy(p) = {}
            /\ Range(steps[p]) \cap SpendSteps = {}
            /\ cart[p] = customer[p].cart /\ sessionContext[p].cart = customer[p].cart
            /\ (Persisted(p) => db.cart = customer[p].cart))

C18_Witness ==
  \E p \in Procs :
    /\ Returned(p) /\ workerResult[p].paymentReason = "Payment gateway timeout"
    /\ Len(customer[p].cart) = 2 /\ Persisted(p) /\ db.total_spend \in InitSpend

\* the calls that select the customer row, session_context included
SnapshotReads == {"fetchCustomer", "fetchCustomerById"}
\* the call that updates last_seen_channel and session_context
SnapshotWrites == {"updateCustomerChannel"}

CountIn(seq, S) == Cardinality({i \in 1..Len(seq) : seq[i] \in S})

\* C19: a turn reads the customer's snapshot exactly once, as its first call,
\* and writes it exactly once, as its last call, with no snapshot write in
\* between.
C19_SnapshotReadOnceWrittenOnce ==
  \A p \in Procs :
    Returned(p) =>
      /\ CountIn(steps[p], SnapshotReads) = 1
      /\ steps[p][1] \in SnapshotReads
      /\ CountIn(steps[p], SnapshotWrites) = 1
      /\ steps[p][Len(steps[p])] \in SnapshotWrites

\* the snapshot task p hands to updateCustomerChannel
HandedCart(p) == cart[p]
HandedRecommended(p) ==
  IF IsTurn(p) THEN sessionContext[p].lastRecommended ELSE customer[p].lastRecommended

\* C20: the stored snapshot is the one handed over by the task whose write
\* came last, line for line, with nothing of an earlier write merged in; every
\* task writes at most once and is answered 200 whether or not another task
\* wrote in between.
C20_LastWriterWins ==
  \A p \in Procs :
    /\ Count(steps[p], "updateCustomerChannel") <= 1
    /\ (result[p].saved # NULL => result[p].status = 200)
    /\ (lastWriter = p =>
          /\ db.cart = HandedCart(p)
          /\ db.lastRecommended = HandedRecommended(p)
          /\ db.last_seen_channel = req[p].channel)

C20_Witness ==
  \E p, q \in Procs :
    /\ p # q /\ req[p].kind = "post" /\ req[q].kind = "post"
    /\ customer[p].cart = <<>> /\ customer[q].cart = <<>>
    /\ req[p].sku # req[q].sku
    /\ result[p].saved = "ok" /\ result[q].saved = "ok" /\ lastWriter = q
    /\ Len(db.cart) = 1 /\ db.cart[1].sku = req[q].sku

\* ------------------------------------------------------------ C21 .. C30
\* the task runs a conversational turn of either server variant
IsAnyTurn(p) == req[p].kind \in {"turn", "legacy_turn"}

\* C21: the cart a turn starts from is the cart of the durable session
\* snapshot (customers.session_context) and of no other store: when the
\* session context has been built and the classification is in flight, the
\* turn's cart is the cart of the snapshot the task fetched.
C21_CartOnlyFromSnapshot ==
  \A p \in Procs :
    (IsAnyTurn(p) /\ "classifyIntent" \in pending[p]) =>
      sessionContext[p].cart = customer[p].cart

\* the latest call is a checkInventory whose query succeeded
InventoryLookedUp == call.fn = "checkInventory" /\ call.args.ok

\* C22: the fulfillment option list of every item of a lookup is determined by
\* the item's (onlineStock, storeStock) and is never empty: it contains
\* ship_to_home iff onlineStock > 0 or both stocks are <= 0, and it contains
\* click_and_collect and reserve_in_store iff storeStock > 0.
C22_OptionsFromStocks ==
  InventoryLookedUp =>
    \A i \in 1..Len(call.ret) :
      LET item == call.ret[i]
          opts == Range(item.fulfillmentOptions)
      IN /\ item.fulfillmentOptions # <<>>
         /\ opts \subseteq {"ship_to_home", "click_and_collect", "reserve_in_store"}
         /\ Cardinality(opts) = Len(item.fulfillmentOptions)
         /\ ("ship_to_home" \in opts) <=>
              (item.onlineStock > 0 \/ (item.onlineStock <= 0 /\ item.storeStock <= 0))
         /\ ("click_and_collect" \in opts) <=> (item.storeStock > 0)
         /\ ("reserve_in_store" \in opts) <=> (item.storeStock > 0)

\* a lookup returned an item with neither stock positive, one with store stock
\* only and one with both
C22_Witness ==
  /\ InventoryLookedUp
  /\ Len(call.ret) = 2
  /\ call.ret[1].onlineStock < 0 /\ call.ret[1].storeStock = 0
  /\ call.ret[1].fulfillmentOptions = <<"ship_to_home">>
  /\ call.ret[2].onlineStock = 0 /\ call.ret[2].storeStock > 0
  /\ call.ret[2].fulfillmentOptions = <<"click_and_collect", "reserve_in_store">>

\* C23: after a successful inventory lookup every sku of the queried list has
\* an item in the result, and that item has at least one fulfillment option.
C23_EveryQueriedSkuHasOption ==
  InventoryLookedUp =>
    \A k \in 1..Len(call.args.skuList) :
      \E i \in 1..Len(call.ret) :
        /\ call.ret[i].sku = call.args.skuList[k]
        /\ call.ret[i].fulfillmentOptions # <<>>

\* the latest call is a call of loyaltyAgent, of either variant
LoyaltyPriced == call.fn \in {"loyaltyAgent", "legacy loyaltyAgent"}

\* the percent of the tier, the lowest tier's for an unknown or missing tier
TierPercent(tier) ==
  IF tier = "silver" THEN 10 ELSE IF tier = "gold" THEN 15
  ELSE IF tier = "platinum" THEN 20 ELSE 5

\* C24: for every tier, known or not, every non-negative cart total and every
\* coupon, loyaltyAgent returns, its discount is cartTotal * tierPercent / 100
\* plus the flat amount of the coupon, and its finalAmount is
\* max(0, cartTotal - discount), hence never negative.
C24_LoyaltyPricingTotal ==
  LoyaltyPriced =>
    LET a == call.args
        r == call.ret
        flat == IF a.couponCode = "FLAT500" THEN 500 ELSE 0
    IN /\ ("threw" \in DOMAIN r) => ~r.threw
       /\ 100 * (r.discount - flat) = a.cartTotal * TierPercent(a.tier)
       /\ r.finalAmount >= 0
       /\ r.finalAmount = IF a.cartTotal - r.discount > 0 THEN a.cartTotal - r.discount ELSE 0

\* the property of C24 for the loyaltyAgent of server.js alone
C24_ServerLoyaltyPricingTotal == (call.fn = "loyaltyAgent") => C24_LoyaltyPricingTotal

\* a checkout turn of a gold customer whose cart totals 2000 has returned, its
\* payment succeeded and none of its calls failed
GoldCheckoutOf2000(p) ==
  /\ Returned(p)
  /\ plan[p].intent = "checkout"
  /\ customer[p].loyalty_tier = "gold"
  /\ CartTotal(customer[p].cart) = 2000
  /\ workerResult[p].payment = "success"
  /\ failed[p] = {}

\* C25: a checkout turn of a gold customer whose cart totals 2000, whose
\* payment succeeds and whose store calls succeed, has discount 300 and
\* finalAmount 1700, has created exactly one order, of status pending and
\* total 1700, has emptied its cart and, its snapshot write being the latest,
\* has left an empty cart in the snapshot.
C25_GoldCheckoutScenario ==
  \A p \in Procs :
    GoldCheckoutOf2000(p) =>
      /\ workerResult[p].discount = 300
      /\ workerResult[p].finalAmount = 1700
      /\ Cardinality(OrdersBy(p)) = 1
      /\ \A i \in OrdersBy(p) : orders[i].status = "pending" /\ orders[i].total_amount = 1700
      /\ sessionContext[p].cart = <<>>
      /\ (lastWriter = p => db.cart = <<>>)

C25_Witness ==
  \E p \in Procs : GoldCheckoutOf2000(p) /\ lastWriter = p /\ db.cart = <<>> /\ Len(orders) = 1

\* the handler of a WhatsApp message has started the turn
TurnStarted(p) == req[p].kind = "whatsapp" /\ "runRetailOrchestrator" \in Range(steps[p])
\* the sender was not found and the insert of a new row was issued
CreatedFor(p) ==
  /\ req[p].kind = "whatsapp"
  /\ "createCustomer" \in Range(steps[p])
  /\ "createCustomer" \notin pending[p]
  /\ "createCustomer" \notin failed[p]

\* C26: when the handler of a WhatsApp message starts the turn it holds a
\* customer whose row is stored; when the sender had to be created the stored
\* row has tier bronze and exists before the turn starts; and when
\* findOrCreateWhatsAppCustomer gave no customer, no turn is started.
C26_CustomerBeforeTurn ==
  \A p \in Procs :
    /\ TurnStarted(p) =>
         /\ waCustomer[p] # NoWaCustomer
         /\ \E i \in 1..Len(customers) : customers[i].id = waCustomer[p].id
    /\ CreatedFor(p) =>
         /\ waCustomer[p].loyalty_tier = "bronze"
         /\ \E i \in 1..Len(customers) :
              customers[i].id = waCustomer[p].id /\ customers[i].loyalty_tier = "bronze"
    /\ (req[p].kind = "whatsapp" /\ pending[p] = {} /\ waCustomer[p] = NoWaCustomer) =>
         ~TurnStarted(p)

\* a sender without a row was created and its turn has started; another
\* message found no customer and could create none, and was answered
C26_Witness ==
  \E p, q \in Procs :
    /\ CreatedFor(p) /\ TurnStarted(p)
    /\ req[q].kind = "whatsapp" /\ "createCustomer" \in failed[q]
    /\ result[q].reply = "trouble_accessing_account"

\* the turn found that the customer came over from another channel
Switched(p) == ContextBuilt(p) /\ sessionContext[p].channel_switched = "true"
\* the dispatch of the turn replaces or clears the item last recommended
OwnItem(p) == plan[p].intent \in {"recommend", "checkout"}

\* C27: in a turn with channelSwitched true the session context holds the
\* previous channel and the current channel, and, unless the turn itself
\* recommends or checks out, the item last recommended of the snapshot read
\* (sku, name, category), which is null when the snapshot has none.
C27_SwitchSurfacesItemAndChannels ==
  \A p \in Procs :
    Switched(p) =>
      /\ sessionContext[p].previous_channel = customer[p].last_seen_channel
      /\ sessionContext[p].previous_channel \in Channels
      /\ sessionContext[p].current_channel = req[p].channel
      /\ sessionContext[p].current_channel # sessionContext[p].previous_channel
      /\ (~OwnItem(p)) => sessionContext[p].lastRecommended = customer[p].lastRecommended

\* a switched turn that is neither recommending nor checking out holds the
\* item another turn left in the snapshot
C27_Witness ==
  \E p \in Procs :
    /\ Switched(p) /\ plan[p].intent \in Intents /\ ~OwnItem(p)
    /\ customer[p].lastRecommended \in Skus
    /\ sessionContext[p].lastRecommended = customer[p].lastRecommended

\* C28: a turn that ended in an exception nothing else handled is answered with
\* status 500 and the apology, and the payload carries no error message.
C28_FailureIs500WithoutDetail ==
  \A p \in Procs :
    (IsTurn(p) /\ result[p].reply = "apology") =>
      /\ result[p].status = 500
      /\ result[p].error = NULL

\* the latest call is a call of the keyword matcher
KeywordMatched == call.fn = "classifyIntent"

\* C29: for every utterance the keyword matcher returns one of the five
\* intents: check_inventory when a stock keyword occurs; otherwise checkout
\* when a buying keyword occurs; otherwise post_purchase when an order keyword
\* occurs; otherwise smalltalk when a greeting occurs; otherwise recommend.
C29_KeywordMatcherOrdered ==
  KeywordMatched =>
    LET q == ToLowerCase(call.args.userQuery)
        g1 == \E k \in InventoryKeywords : Includes(q, k)
        g2 == \E k \in CheckoutKeywords : Includes(q, k)
        g3 == \E k \in PostPurchaseKeywords : Includes(q, k)
        g4 == \E k \in SmalltalkKeywords : Includes(q, k)
    IN /\ call.ret \in Intents
       /\ g1 => call.ret = "check_inventory"
       /\ (~g1 /\ g2) => call.ret = "checkout"
       /\ (~g1 /\ ~g2 /\ g3) => call.ret = "post_purchase"
       /\ (~g1 /\ ~g2 /\ ~g3 /\ g4) => call.ret = "smalltalk"
       /\ (~g1 /\ ~g2 /\ ~g3 /\ ~g4) => call.ret = "recommend"

\* "pay order" has a buying keyword and an order keyword and is a checkout
C29_Witness ==
  /\ KeywordMatched
  /\ call.args.userQuery = PayOrder
  /\ Includes(ToLowerCase(PayOrder), <<"p", "a", "y">>)
  /\ Includes(ToLowerCase(PayOrder), <<"o", "r", "d", "e", "r">>)
  /\ call.ret = "checkout"

\* the turn has persisted an order
OrderPersisted(p) == workerResult[p].payment = "success" /\ workerResult[p].orderId # 0

\* C30: a turn that has returned without persisting an order (any intent other
\* than checkout, a checkout of an empty cart, a declined checkout, a checkout
\* whose order insert failed) hands to the snapshot write the cart it read at
\* its start, and when its write is the latest the snapshot holds that cart.
C30_CartUnchangedUnlessOrdered ==
  \A p \in Procs :
    (Returned(p) /\ ~OrderPersisted(p)) =>
      /\ cart[p] = customer[p].cart
      /\ sessionContext[p].cart = customer[p].cart
      /\ (Persisted(p) => db.cart = customer[p].cart)

\* the payment of a checkout succeeded, its order insert failed, and the cart
\* of two lines it read is the cart it wrote
C30_Witness ==
  \E p \in Procs :
    /\ Returned(p) /\ plan[p].intent = "checkout"
    /\ workerResult[p].payment = "success" /\ "createOrder" \in failed[p]
    /\ Len(customer[p].cart) = 2
    /\ Persisted(p) /\ db.cart = customer[p].cart

\* ------------------------------------------------------------ C31 .. C39
\* the turn handed the item and the category of the snapshot it read on
KeepsItem(p) ==
  /\ sessionContext[p].lastRecommended = customer[p].lastRecommended
  /\ sessionContext[p].lastBrowsedCategory = customer[p].lastBrowsedCategory
\* the snapshot holds the item and the category of the turn's session context
ItemStored(p) ==
  /\ db.lastRecommended = sessionContext[p].lastRecommended
  /\ db.lastBrowsedCategory = sessionContext[p].lastBrowsedCategory

\* C31: a recommend turn that got at least one product has lastRecommended set
\* to the first product and lastBrowsedCategory to its category; a recommend
\* turn that got no product and every check_inventory, post_purchase and
\* smalltalk turn has both as they were in the snapshot it read; and that is
\* what the turn's snapshot write stores.
C31_ItemSetOnlyByRecommendation ==
  \A p \in Procs :
    Returned(p) =>
      /\ (plan[p].intent = "recommend" /\ workerResult[p].recommendations # NULL) =>
           /\ sessionContext[p].lastRecommended = workerResult[p].recommendations
           /\ sessionContext[p].lastBrowsedCategory =
                Category(workerResult[p].recommendations)
      /\ (\/ plan[p].intent = "recommend" /\ workerResult[p].recommendations = NULL
          \/ plan[p].intent \in {"check_inventory", "post_purchase", "smalltalk"}) =>
           KeepsItem(p)
      /\ (plan[p].intent \in Intents \ {"checkout"} /\ Persisted(p)) => ItemStored(p)

\* a recommend turn that got no product kept and stored the item another
\* turn's recommendation had left in the snapshot
C31_Witness ==
  \E p \in Procs :
    /\ Returned(p) /\ plan[p].intent = "recommend"
    /\ workerResult[p].recommendations = NULL
    /\ customer[p].lastRecommended = "S1" /\ customer[p].lastBrowsedCategory = "shirts"
    /\ Persisted(p) /\ db.lastRecommended = "S1"

\* in this step turn q reads the snapshot that the completed turn p wrote last
ReadsAfter(p, q) ==
  /\ p # q
  /\ Returned(p) /\ Persisted(p)
  /\ IsTurn(q)
  /\ "fetchCustomerById" \in pending[q]
  /\ "getRecentSessions" \in pending'[q]

\* what the next turn reads is what the completed turn left
C32_NextTurnReads ==
  \A p, q \in Procs :
    ReadsAfter(p, q) =>
      /\ customer'[q].last_seen_channel = req[p].channel
      /\ customer'[q].lastRecommended = sessionContext[p].lastRecommended

\* the snapshot of a completed turn holds its channel, and the session context
\* of a turn compares the channel it read with its own and holds the item it read
C32_ChannelKept ==
  \A p \in Procs :
    /\ (Returned(p) /\ Persisted(p)) => db.last_seen_channel = req[p].channel
    /\ (ContextBuilt(p) /\ customer[p].last_seen_channel \in Channels) =>
         /\ sessionContext[p].channel_switched =
              JsBool(customer[p].last_seen_channel # req[p].channel)
         /\ (~OwnItem(p)) => sessionContext[p].lastRecommended = customer[p].lastRecommended

\* C32: after a completed turn whose snapshot write succeeded and is the
\* latest, last_seen_channel is that turn's channel; the turn that reads the
\* snapshot next gets that channel and the item the turn left, has
\* channelSwitched true on another channel and false on the same one, and
\* holds the item in its session context.
C32_ContinuityAcrossChannels == [] C32_ChannelKept /\ [][C32_NextTurnReads]_vars

\* a turn on whatsapp follows a recommend turn on web: it is switched and holds
\* the item recommended on web
C32_Witness ==
  \E p, q \in Procs :
    /\ Returned(p) /\ Persisted(p) /\ plan[p].intent = "recommend" /\ req[p].channel = "web"
    /\ ContextBuilt(q) /\ req[q].channel = "whatsapp"
    /\ customer[q].last_seen_channel = "web"
    /\ sessionContext[q].channel_switched = "true"
    /\ sessionContext[q].lastRecommended = "S1"
    /\ sessionContext[p].lastRecommended = "S1"

\* the checkout turn of p was paid and its order was inserted
Committed(p) ==
  /\ IsTurn(p) /\ plan[p].intent = "checkout"
  /\ workerResult[p].payment = "success" /\ workerResult[p].orderId # 0

\* C33: two checkout turns that loaded the same non-empty cart from the
\* snapshot do not both reach a successful payment and an inserted order.
C33_OneOrderPerCart ==
  \A p, q \in Procs :
    (p # q /\ customer[p].cart # <<>> /\ customer[p].cart = customer[q].cart) =>
      ~(Committed(p) /\ Committed(q))

\* the POST /cart of q has stored its cart
Added(q) == req[q].kind = "post" /\ pending[q] = {} /\ result[q].saved = "ok"

\* C34: once a committed checkout turn and a POST /cart of the same customer
\* have both finished, the sku added is in the sku list of the turn's order or
\* in the cart of the snapshot.
C34_AddedItemOrderedOrKept ==
  \A p, q \in Procs :
    (Committed(p) /\ Returned(p) /\ Added(q)) =>
      \/ \E i \in OrdersBy(p) : req[q].sku \in Range(orders[i].sku_list)
      \/ FindIndex(db.cart, req[q].sku) > 0

\* the sum of the total_amount of the orders
RECURSIVE SumAmounts(_)
SumAmounts(os) == IF os = <<>> THEN 0 ELSE os[1].total_amount + SumAmounts(Tail(os))

\* every request has been answered and every committed checkout ran its spend
\* update with no call of the turn failing
SpendUpdatesDone ==
  /\ \A p \in Procs : pending[p] = {}
  /\ \A p \in Procs :
       Committed(p) =>
         /\ "updateCustomerSpend.update" \in Range(steps[p])
         /\ failed[p] = {}

\* C35: when the committed checkouts have finished and each spend update
\* reported success, total_spend is its initial value plus the sum of the
\* finalAmounts of their orders.
C35_NoSpendUpdateLost ==
  SpendUpdatesDone =>
    \E spend \in InitSpend : db.total_spend = spend + SumAmounts(orders)

\* C36: the customers table holds at most one row with the sender's phone
\* number, and the turns of two messages of that sender run for the same
\* customer.
C36_OneCustomerPerPhone ==
  /\ Len(customers) <= 1
  /\ \A p, q \in Procs :
       (TurnStarted(p) /\ TurnStarted(q)) => waCustomer[p].id = waCustomer[q].id

\* the finalAmount of loyaltyAgent on the cart the turn loaded
LoadedAmount(p) ==
  LET total == CartTotal(customer[p].cart)
      discount == (total * TierPercent(customer[p].loyalty_tier)) \div 100
  IN IF total - discount > 0 THEN total - discount ELSE 0

\* the skus of the cart the turn loaded, in the order of its lines
LoadedSkus(p) == [i \in 1..Len(customer[p].cart) |-> customer[p].cart[i].sku]

\* the order, the payment record and the amount paid of a committed checkout
C37_AmountsAgree ==
  \A p \in Procs :
    Committed(p) =>
      /\ workerResult[p].finalAmount = LoadedAmount(p)
      /\ workerResult[p].paymentAmount = LoadedAmount(p)
      /\ \A i \in OrdersBy(p) :
           orders[i].total_amount = LoadedAmount(p) /\ orders[i].sku_list = LoadedSkus(p)
      /\ \A i \in PaymentsBy(p) : payment_transactions[i].amount = LoadedAmount(p)

\* the spend update of a committed checkout adds the amount to the spend it read
C37_SpendIncrement ==
  \A p \in Procs :
    (Committed(p) /\ "updateCustomerSpend.update" \in pending[p]
       /\ "updateCustomerSpend.update" \notin pending'[p]
       /\ "updateCustomerSpend.update" \notin failed'[p]) =>
      db'.total_spend = currentSpend[p] + LoadedAmount(p)

\* C37: in a committed checkout turn the amount paid, the order's total, the
\* amount of the payment record and the spend increment are all the
\* finalAmount that the loyalty rules give for the cart loaded at turn start,
\* and the order's sku list is the skus of that cart in order.
C37_SameAmountThroughout == [] C37_AmountsAgree /\ [][C37_SpendIncrement]_vars

\* a committed checkout of the cart of two lines has its order, its payment
\* record and its spend update
C37_Witness ==
  \E p \in Procs :
    /\ Committed(p) /\ Returned(p)
    /\ Len(customer[p].cart) = 2
    /\ OrdersBy(p) # {} /\ PaymentsBy(p) # {}
    /\ failed[p] = {}
    /\ db.total_spend = currentSpend[p] + 2550

\* a checkout turn that returned with the templated reply
TemplatedCheckout(p) ==
  /\ Returned(p) /\ ~openai
  /\ plan[p].intent = "checkout"

\* C38: without text generation, the templated reply of a returned checkout
\* turn matches the outcome of its checkout: it says "payment successful"
\* exactly when the turn committed (payment succeeded and the order was
\* persisted), says "cart is empty" only when the cart loaded at the start of
\* the turn was empty, and says neither "payment successful" nor "ready to
\* checkout" after a declined payment.
C38_TemplatedReplyMatchesOutcome ==
  \A p \in Procs :
    TemplatedCheckout(p) =>
      /\ (result[p].reply = "payment_successful") <=> Committed(p)
      /\ (result[p].reply = "cart_empty") => (customer[p].cart = <<>>)
      /\ (workerResult[p].payment = "declined") =>
           result[p].reply \notin {"payment_successful", "ready_to_checkout"}

\* runRetailOrchestrator was entered for the request of p
HandleTurnEntered(p) == IsTurn(p) /\ "fetchCustomerById" \in Range(steps[p])

\* runRetailOrchestrator has returned for p with a reply text
HandleTurnReturned(p) ==
  /\ IsTurn(p) /\ pending[p] = {}
  /\ result[p].reply # NULL

\* no call of a turn is issued twice
C39_NoStepRepeated ==
  \A p \in Procs :
    IsTurn(p) => \A i, j \in 1..Len(steps[p]) : (steps[p][i] = steps[p][j]) => (i = j)

\* C39: provided every call in flight eventually returns or throws, a turn
\* that entered runRetailOrchestrator eventually returns with a reply text,
\* whatever its intent and the outcome of its checkout, and issues no call
\* twice.
C39_EveryTurnTerminates ==
  /\ [] C39_NoStepRepeated
  /\ \A p \in Procs : HandleTurnEntered(p) ~> HandleTurnReturned(p)

\* a checkout turn has returned after a declined payment
C39_Witness ==
  \E p \in Procs :
    /\ HandleTurnEntered(p) /\ HandleTurnReturned(p)
    /\ plan[p].intent = "checkout" /\ workerResult[p].payment = "declined"
    /\ result[p].reply # NULL

====
